---- MODULE Spec2Model ----
(***************************************************************************)
(* Model of tensilelite/Tensile/TensileCreateLibrary.py: the library merge *)
(* (generateLogicDataAndSolutions), the kernel extraction                  *)
(* (generateKernelObjectsFromSolutions), the output planner                *)
(* (buildObjectFileNames, buildObjectFilePaths), the build pipeline        *)
(* (writeSolutionsAndKernels, buildKernelSourceAndHeaderFiles) and the     *)
(* reconciliation at the end of TensileCreateLibrary.                      *)
(*                                                                         *)
(* The module holds one specification per component; the variables of the  *)
(* components a specification does not run stay at Idle.                   *)
(***************************************************************************)
EXTENDS Integers, Sequences, FiniteSets, TLC

VARIABLES
  \* ---- globalParameters and objects shared by the components
  mode,               \* "full" | "separate" | "lazy" (SeparateArchitectures, LazyLibraryLoading)
  masterLibraries,    \* dict architectureName -> MasterSolutionLibrary
  fullMasterLibrary,  \* None or the full library
  solutions,          \* the solutions (a dict_keys view after the merge, a list in the build)
  pc,                 \* position in the function the specification runs
  \* ---- generateLogicDataAndSolutions (lines 637-708)
  fileArch,           \* architectureName parseLibraryLogicFile returns per logic file
  GenSolTable,        \* args.GenSolTable
  pending,            \* logic files the unordered generator has not yielded yet
  nextSolIndex,
  matchTable,         \* dict index -> <<srcFile, localIdx>>
  solIndex,           \* the index field of every SolutionRecord object
  codeObjectFile,     \* originalSolution._state["codeObjectFile"] per solution
  \* ---- TensileCreateLibrary (lines 915-1016), writeSolutionsAndKernels (lines 236-384)
  entry,              \* the function called: "TensileCreateLibrary" | "writeSolutionsAndKernels"
  MergeFiles,         \* globalParameters["MergeFiles"]
  NumMergedFiles,     \* globalParameters["NumMergedFiles"]
  GenerateSourcesAndExit,
  GenerateManifestAndExit,
  errorTolerant,      \* parameter of writeSolutionsAndKernels
  osName,             \* os.name: "posix" | "nt"
  sourceArchs,        \* splitArchs(): the targets source kernels are built for
  kernels,            \* the working kernel list
  kernelHelperObjs,
  results,            \* list of (err, src, kernelName, filename) in kernel order
  removeKernels, removeKernelNames, removeResults,
  kernelsWithBuildErrs, \* dict kernelName -> err
  kernelFiles,        \* list of the kernel source files written
  filesWritten,       \* dict kernel source file -> the kernel names written into it
  kernelsToBuild,
  codeObjectFiles,    \* the paths the toolchain returned
  sourceLibPaths, asmLibPaths, libMetadataPaths, \* the planned paths
  manifest,           \* content of TensileManifest.txt, None before it is written
  libraryDir,         \* the files in <outputPath>/library
  printed,            \* what the run printed, in order
  exitCause           \* why the run ended early, "" otherwise

sharedVars == <<mode, masterLibraries, fullMasterLibrary, solutions, pc>>

mergeVars == <<fileArch, GenSolTable, pending, nextSolIndex, matchTable, solIndex, codeObjectFile>>

flagVars == <<entry, MergeFiles, NumMergedFiles, GenerateSourcesAndExit, GenerateManifestAndExit,
              errorTolerant, osName, sourceArchs>>

planVars == <<sourceLibPaths, asmLibPaths, libMetadataPaths, manifest>>

kernelVars == <<kernels, kernelHelperObjs, results, removeKernels, removeKernelNames,
                removeResults, kernelsWithBuildErrs>>

fileVars == <<kernelFiles, filesWritten, kernelsToBuild, codeObjectFiles, libraryDir>>

buildVars == <<flagVars, planVars, kernelVars, fileVars, printed, exitCause>>

vars == <<sharedVars, mergeVars, buildVars>>

Idle == "idle"
None == "None"
\* an optional object: NoObject is Python's None, <<x>> holds the object x
NoObject == << >>

(***************************************************************************)
(* Bounds of the model.                                                    *)
(***************************************************************************)
NumFiles == 3          \* logic files handed to generateLogicDataAndSolutions
MaxSols == 2           \* most solutions one logic file holds

(***************************************************************************)
(* Python helpers.                                                         *)
(***************************************************************************)
Min(S) == CHOOSE x \in S : \A y \in S : x <= y
Max(S) == CHOOSE x \in S : \A y \in S : y <= x

RECURSIVE SortedSeq(_)
SortedSeq(S) == IF S = {} THEN << >> ELSE <<Min(S)>> \o SortedSeq(S \ {Min(S)})

Range(f) == {f[x] : x \in DOMAIN f}

EmptyDict == << >>

\* d[k] = v of a Python dict
DictPut(d, k, v) == [x \in (DOMAIN d) \cup {k} |-> IF x = k THEN v ELSE d[x]]

\* d.pop(k)
DictPop(d, k) == [x \in (DOMAIN d) \ {k} |-> d[x]]

(***************************************************************************)
(* The loaded logic files.  A SolutionRecord object is named by the file   *)
(* it was loaded from and its position in that file.                        *)
(***************************************************************************)
LogicFiles == 1..NumFiles
ArchNames == {"", "gfx900", "gfx906", "fallback"}
Modes == {"full", "separate", "lazy"}

\* number of solutions of logic file f
FileSize(f) == ((f - 1) % MaxSols) + 1

FileRecs(f) == {<<f, i>> : i \in 0..(FileSize(f) - 1)}
AllRecs == UNION {FileRecs(f) : f \in LogicFiles}

\* the problem type of a logic file; with the architecture it names the
\* lazy sub-library the file's solutions are loaded into
ProblemType(f) == IF f = NumFiles THEN "TensileLibrary_B_" ELSE "TensileLibrary_A_"
LazyName(f, arch) == ProblemType(f) \o arch

\* a MasterSolutionLibrary: its solutions dict and its lazyLibraries dict
\* (lazyNames is the insertion order of lazyLibraries)
Library(sols, names, lazy) == [solutions |-> sols, lazyNames |-> names, lazyLibraries |-> lazy]

\* the solutions dict of a freshly loaded file: local index -> record
FileDict(f) == [i \in 0..(FileSize(f) - 1) |-> <<f, i>>]

\* newLibrary as parseLibraryLogicFile returns it for file f
LoadedLibrary(f, arch, m) ==
  IF m = "lazy"
  THEN Library(EmptyDict, <<LazyName(f, arch)>>,
               [n \in {LazyName(f, arch)} |-> FileDict(f)])
  ELSE Library(FileDict(f), << >>, EmptyDict)

\* every SolutionRecord a library holds, in its own dict or in a lazy sub-library
Held(lib) == Range(lib.solutions) \cup
             UNION {Range(lib.lazyLibraries[n]) : n \in DOMAIN lib.lazyLibraries}

\* number of dict entries a library holds, lazy sub-libraries included
LibCount(lib) ==
  Cardinality(DOMAIN lib.solutions) +
  Cardinality(UNION {{<<n, k>> : k \in DOMAIN lib.lazyLibraries[n]} : n \in DOMAIN lib.lazyLibraries})

(***************************************************************************)
(* MasterSolutionLibrary.merge(other, startIndex): every incoming          *)
(* SolutionRecord is re-indexed from startIndex on and stored under its    *)
(* new index; the call returns the index after the last one it assigned.   *)
(* A lazy sub-library of other is merged into the sub-library of the same  *)
(* name, or becomes that sub-library.                                      *)
(***************************************************************************)
\* startIndex of a merge call that passes none
DefaultStartIndex == 0

\* the records of dict d in the order merge visits them
DictRecs(d) == [i \in 1..Cardinality(DOMAIN d) |-> d[SortedSeq(DOMAIN d)[i]]]

\* selfDict after only the first record of otherDict was stored
ReindexIntoFirst(selfDict, otherDict, start) ==
  IF DOMAIN otherDict = {} THEN selfDict
  ELSE [k \in (DOMAIN selfDict) \cup {start} |->
          IF k = start THEN DictRecs(otherDict)[1] ELSE selfDict[k]]

\* selfDict after the records of otherDict were stored from index start on
ReindexInto(selfDict, otherDict, start) ==
  LET recs == DictRecs(otherDict)
      new == start..(start + Len(recs) - 1)
  IN  [k \in (DOMAIN selfDict) \cup new |->
         IF k \in new THEN recs[k - start + 1] ELSE selfDict[k]]

\* the index fields after the records of otherDict were re-indexed from start on
ReindexFields(idx, otherDict, start) ==
  LET recs == DictRecs(otherDict)
  IN  [r \in DOMAIN idx |->
         IF \E i \in 1..Len(recs) : recs[i] = r
         THEN start + (CHOOSE i \in 1..Len(recs) : recs[i] = r) - 1
         ELSE idx[r]]

\* acc = [lib, idx, next]: the lazy sub-libraries of other named in names merged into acc.lib
RECURSIVE MergeLazy(_, _, _)
MergeLazy(acc, other, names) ==
  IF names = << >> THEN acc
  ELSE LET n == Head(names)
           known == n \in DOMAIN acc.lib.lazyLibraries
           mine == IF known THEN acc.lib.lazyLibraries[n] ELSE EmptyDict
           theirs == other.lazyLibraries[n]
       IN  MergeLazy(
             [lib |-> [acc.lib EXCEPT
                         !.lazyNames = IF known THEN @ ELSE Append(@, n),
                         !.lazyLibraries = DictPut(@, n, ReindexInto(mine, theirs, acc.next))],
              idx |-> ReindexFields(acc.idx, theirs, acc.next),
              next |-> acc.next + Cardinality(DOMAIN theirs)],
             other, Tail(names))

\* self.merge(other, startIndex): [lib |-> self afterwards, idx |-> the index
\* fields afterwards, next |-> the returned index]
MergeLibrary(self, other, startIndex, idx) ==
  LET a == MergeLazy([lib |-> self, idx |-> idx, next |-> startIndex], other, other.lazyNames)
  IN  [lib |-> [a.lib EXCEPT !.solutions = ReindexInto(@, other.solutions, a.next)],
       idx |-> ReindexFields(a.idx, other.solutions, a.next),
       next |-> a.next + Cardinality(DOMAIN other.solutions)]

(***************************************************************************)
(* generateLogicDataAndSolutions                                           *)
(***************************************************************************)
\* the build does not run
BuildIdle ==
  /\ entry = Idle /\ MergeFiles = Idle /\ NumMergedFiles = Idle
  /\ GenerateSourcesAndExit = Idle /\ GenerateManifestAndExit = Idle
  /\ errorTolerant = Idle /\ osName = Idle /\ sourceArchs = Idle
  /\ kernels = Idle /\ kernelHelperObjs = Idle /\ results = Idle
  /\ removeKernels = Idle /\ removeKernelNames = Idle /\ removeResults = Idle
  /\ kernelsWithBuildErrs = Idle /\ kernelFiles = Idle /\ filesWritten = Idle
  /\ kernelsToBuild = Idle /\ codeObjectFiles = Idle
  /\ sourceLibPaths = Idle /\ asmLibPaths = Idle /\ libMetadataPaths = Idle
  /\ manifest = Idle /\ libraryDir = Idle /\ printed = Idle /\ exitCause = Idle

\* masterLibraries is a dict: keys in insertion order, and the libraries
EmptyLibraries == [order |-> << >>, lib |-> EmptyDict]
LibKeys(ml) == DOMAIN ml.lib
LibrariesPut(ml, arch, lib) ==
  [order |-> IF arch \in DOMAIN ml.lib THEN ml.order ELSE Append(ml.order, arch),
   lib |-> DictPut(ml.lib, arch, lib)]
LibrariesPop(ml, arch) ==
  [order |-> SelectSeq(ml.order, LAMBDA a : a # arch),
   lib |-> DictPop(ml.lib, arch)]

\* libraryIter(newLibrary) for the library of file f: (localIdx, record)
LibraryIter(f) == {<<r[2], r>> : r \in FileRecs(f)}

\* lines 679-682: matchTable[s.index] = [srcFile, localIdx]
RecordMatches(table, f, idx) ==
  LET hit(k) == {e \in LibraryIter(f) : idx[e[2]] = k}
  IN  [k \in (DOMAIN table) \cup {idx[e[2]] : e \in LibraryIter(f)} |->
         IF hit(k) # {} THEN <<f, Max({e[1] : e \in hit(k)})>> ELSE table[k]]

MergeInit ==
  /\ fileArch \in [LogicFiles -> ArchNames]
  /\ mode \in Modes
  /\ GenSolTable \in BOOLEAN
  /\ pending = LogicFiles
  /\ masterLibraries = EmptyLibraries
  /\ fullMasterLibrary = NoObject
  /\ nextSolIndex = 0
  /\ matchTable = EmptyDict
  /\ solIndex = [r \in AllRecs |-> r[2]]
  /\ codeObjectFile = [r \in AllRecs |-> None]
  /\ solutions = {}
  /\ pc = "loading"
  /\ BuildIdle

\* lines 663-664: a file whose architecture is not a build target
SkipLibrary(f) ==
  /\ pc = "loading"
  /\ f \in pending
  /\ fileArch[f] = ""
  /\ pending' = pending \ {f}
  /\ UNCHANGED <<fileArch, mode, GenSolTable, masterLibraries, fullMasterLibrary,
                 nextSolIndex, matchTable, solIndex, codeObjectFile, solutions, pc>>
  /\ UNCHANGED buildVars

\* lines 666-671, 679-682: separate architectures or lazy loading
LoadSeparate(f) ==
  /\ pc = "loading"
  /\ f \in pending
  /\ fileArch[f] # ""
  /\ mode \in {"separate", "lazy"}
  /\ LET arch == fileArch[f]
         newLibrary == LoadedLibrary(f, arch, mode)
         known == arch \in LibKeys(masterLibraries)
         m == MergeLibrary(masterLibraries.lib[arch], newLibrary, nextSolIndex, solIndex)
     IN  /\ masterLibraries' = LibrariesPut(masterLibraries, arch,
                                            IF known THEN m.lib ELSE newLibrary)
         /\ nextSolIndex' = IF known THEN m.next ELSE nextSolIndex
         /\ solIndex' = IF known THEN m.idx ELSE solIndex
  /\ matchTable' = IF GenSolTable THEN RecordMatches(matchTable, f, solIndex') ELSE matchTable
  /\ pending' = pending \ {f}
  /\ UNCHANGED <<fileArch, mode, GenSolTable, fullMasterLibrary, codeObjectFile, solutions, pc>>
  /\ UNCHANGED buildVars

\* lines 672-682: one full library
LoadFull(f) ==
  /\ pc = "loading"
  /\ f \in pending
  /\ fileArch[f] # ""
  /\ mode = "full"
  /\ LET newLibrary == LoadedLibrary(f, fileArch[f], mode)
         m == MergeLibrary(fullMasterLibrary[1], newLibrary, DefaultStartIndex, solIndex)
     IN  /\ fullMasterLibrary' = IF fullMasterLibrary = NoObject THEN <<newLibrary>> ELSE <<m.lib>>
         /\ solIndex' = IF fullMasterLibrary = NoObject THEN solIndex ELSE m.idx
  /\ matchTable' = IF GenSolTable THEN RecordMatches(matchTable, f, solIndex') ELSE matchTable
  /\ pending' = pending \ {f}
  /\ UNCHANGED <<fileArch, mode, GenSolTable, masterLibraries, nextSolIndex,
                 codeObjectFile, solutions, pc>>
  /\ UNCHANGED buildVars

\* lines 686-688: value.merge(masterLibraries["fallback"]) for the keys in order
RECURSIVE MergeFallbackInto(_, _, _)
MergeFallbackInto(acc, fallback, keys) ==
  IF keys = << >> THEN acc
  ELSE LET key == Head(keys)
           m == MergeLibrary(acc.ml.lib[key], fallback, DefaultStartIndex, acc.idx)
       IN  IF key = "fallback"
           THEN MergeFallbackInto(acc, fallback, Tail(keys))
           ELSE MergeFallbackInto([ml |-> LibrariesPut(acc.ml, key, m.lib), idx |-> m.idx],
                                  fallback, Tail(keys))

\* the fallback merge without the removal of the fallback entry
FallbackMergedKeepingFallback(ml, idx) ==
  IF "fallback" \in LibKeys(ml)
  THEN MergeFallbackInto([ml |-> ml, idx |-> idx], ml.lib["fallback"], ml.order)
  ELSE [ml |-> ml, idx |-> idx]

\* lines 684-690
FallbackMerged(ml, idx) ==
  IF "fallback" \in LibKeys(ml)
  THEN LET a == MergeFallbackInto([ml |-> ml, idx |-> idx], ml.lib["fallback"], ml.order)
       IN  [ml |-> LibrariesPop(a.ml, "fallback"), idx |-> a.idx]
  ELSE [ml |-> ml, idx |-> idx]

MergeFallback ==
  /\ pc = "loading"
  /\ pending = {}
  /\ mode \in {"separate", "lazy"}
  /\ masterLibraries' = FallbackMerged(masterLibraries, solIndex).ml
  /\ solIndex' = FallbackMerged(masterLibraries, solIndex).idx
  /\ pc' = "merged"
  /\ UNCHANGED <<fileArch, mode, GenSolTable, pending, fullMasterLibrary, nextSolIndex,
                 matchTable, codeObjectFile, solutions>>
  /\ UNCHANGED buildVars

\* the stamp of line 697 is left out
StampLazySkipped(cof, lib, names) == cof

\* lines 695-697: the codeObjectFile stamps, libraries and sub-libraries in dict order
RECURSIVE StampLazy(_, _, _)
StampLazy(cof, lib, names) ==
  IF names = << >> THEN cof
  ELSE StampLazy([r \in DOMAIN cof |->
                    IF r \in Range(lib.lazyLibraries[Head(names)]) THEN Head(names) ELSE cof[r]],
                 lib, Tail(names))

RECURSIVE StampLibraries(_, _, _)
StampLibraries(cof, ml, keys) ==
  IF keys = << >> THEN cof
  ELSE StampLibraries(StampLazy(cof, ml.lib[Head(keys)], ml.lib[Head(keys)].lazyNames),
                      ml, Tail(keys))

\* lines 692-703
CollectSolutions ==
  /\ pc = "merged"
  /\ solutions' = UNION {Held(masterLibraries.lib[a]) : a \in LibKeys(masterLibraries)}
  /\ codeObjectFile' = StampLibraries(codeObjectFile, masterLibraries, masterLibraries.order)
  /\ pc' = "done"
  /\ UNCHANGED <<fileArch, mode, GenSolTable, pending, masterLibraries, fullMasterLibrary,
                 nextSolIndex, matchTable, solIndex>>
  /\ UNCHANGED buildVars

\* lines 699-703; fullMasterLibrary is still None when no file was absorbed
CollectFull ==
  /\ pc = "loading"
  /\ pending = {}
  /\ mode = "full"
  /\ IF fullMasterLibrary = NoObject
     THEN pc' = "error" /\ solutions' = solutions
     ELSE pc' = "done" /\ solutions' = Range(fullMasterLibrary[1].solutions)
  /\ UNCHANGED <<fileArch, mode, GenSolTable, pending, masterLibraries, fullMasterLibrary,
                 nextSolIndex, matchTable, solIndex, codeObjectFile>>
  /\ UNCHANGED buildVars

MergeNext ==
  \/ \E f \in LogicFiles : SkipLibrary(f)
  \/ \E f \in LogicFiles : LoadSeparate(f)
  \/ \E f \in LogicFiles : LoadFull(f)
  \/ MergeFallback
  \/ CollectSolutions
  \/ CollectFull

SpecMerge == MergeInit /\ [][MergeNext]_vars

(***************************************************************************)
(* Properties of generateLogicDataAndSolutions                            *)
(***************************************************************************)
\* the records of the consumed files of architecture arch
Consumed(arch) == UNION {FileRecs(f) : f \in {g \in LogicFiles \ pending : fileArch[g] = arch}}

\* the records library arch has absorbed so far
Absorbed(arch) ==
  Consumed(arch) \cup (IF pc \in {"merged", "done"} THEN Consumed("fallback") ELSE {})

IndexUnique(lib) == \A r1, r2 \in Held(lib) : r1 # r2 => solIndex[r1] # solIndex[r2]

\* C1 (index uniqueness): no MasterLibrary holds two SolutionRecords with the
\* same index, and every record a library absorbed is still held by it (none
\* was overwritten by a record stored under the same index).
C1_IndexUniqueness ==
  /\ \A a \in LibKeys(masterLibraries) :
        /\ IndexUnique(masterLibraries.lib[a])
        /\ Absorbed(a) \subseteq Held(masterLibraries.lib[a])
  /\ fullMasterLibrary # NoObject =>
        /\ IndexUnique(fullMasterLibrary[1])
        /\ UNION {Consumed(a) : a \in ArchNames \ {""}} \subseteq Held(fullMasterLibrary[1])

NoFallbackKey(ml) ==
  /\ "fallback" \notin LibKeys(ml)
  /\ \A a \in LibKeys(ml) : "fallback" \notin DOMAIN ml.lib[a].lazyLibraries

\* C2 (fallback elimination): once the fallback merge has run, no
\* MasterLibrary and no lazy sub-library is keyed "fallback"; the merge keeps
\* every other architecture key and does not lower its solution count.
C2_FallbackElimination ==
  /\ [](pc \in {"merged", "done"} => NoFallbackKey(masterLibraries))
  /\ [][(pc = "loading" /\ pc' = "merged") =>
          \A a \in LibKeys(masterLibraries) \ {"fallback"} :
            /\ a \in LibKeys(masterLibraries')
            /\ LibCount(masterLibraries'.lib[a]) >= LibCount(masterLibraries.lib[a])]_vars

\* a finished run in which a fallback library was merged into two architectures
C2_Witness ==
  /\ pc = "done"
  /\ mode \in {"separate", "lazy"}
  /\ Consumed("fallback") # {}
  /\ Cardinality(LibKeys(masterLibraries)) = 2
  /\ \A a \in LibKeys(masterLibraries) :
        Consumed("fallback") \cap Held(masterLibraries.lib[a]) # {}

\* the library a tuple of architecture arch is absorbed into
Absorbing(arch, ml, full) == IF mode = "full" THEN full[1] ELSE ml.lib[arch]

\* C13 (merge atomicity and skip): the step that processes the tuple of one
\* logic file either leaves every SolutionRecord of the file in the library
\* of its architecture (or in the full library), or, when the architecture
\* name is empty, leaves masterLibraries, fullMasterLibrary, nextSolIndex
\* and the match table as they were and goes on loading.
C13_MergeAtomicity ==
  [][\A f \in LogicFiles :
       (f \in pending /\ f \notin pending') =>
         IF fileArch[f] = ""
         THEN /\ UNCHANGED <<masterLibraries, fullMasterLibrary, nextSolIndex, matchTable>>
              /\ pc' = "loading"
         ELSE /\ FileRecs(f) \subseteq Held(Absorbing(fileArch[f], masterLibraries',
                                                     fullMasterLibrary'))
              /\ pc' = "loading"]_vars

\* one tuple was skipped and two tuples of one architecture were absorbed,
\* the second by a merge
C13_Witness ==
  /\ pc = "loading"
  /\ pending = {}
  /\ \E f \in LogicFiles : fileArch[f] = ""
  /\ \E f, g \in LogicFiles :
       /\ f # g /\ fileArch[f] = fileArch[g] /\ fileArch[f] # ""
       /\ FileRecs(f) \cup FileRecs(g) \subseteq
            Held(Absorbing(fileArch[f], masterLibraries, fullMasterLibrary))

\* the names of the lazy sub-libraries that hold record r
OwnersOf(r) ==
  {n \in UNION {DOMAIN masterLibraries.lib[a].lazyLibraries : a \in LibKeys(masterLibraries)} :
     \E a \in LibKeys(masterLibraries) :
       /\ n \in DOMAIN masterLibraries.lib[a].lazyLibraries
       /\ r \in Range(masterLibraries.lib[a].lazyLibraries[n])}

\* C21 (lazy code-object stamping): when generateLogicDataAndSolutions ends
\* in lazy mode, every solution held by a lazy sub-library has the name of
\* that sub-library as its codeObjectFile, no solution is held by lazy
\* sub-libraries of two names, and a solution no sub-library holds has no
\* stamp.
C21_LazyStamping ==
  (pc = "done" /\ mode = "lazy") =>
    \A r \in AllRecs :
      /\ Cardinality(OwnersOf(r)) <= 1
      /\ \A n \in OwnersOf(r) : codeObjectFile[r] = n
      /\ OwnersOf(r) = {} => codeObjectFile[r] = None

\* a lazy run ended with the fallback solutions held, and stamped, in the
\* MasterLibraries of two architectures
C21_Witness ==
  /\ pc = "done"
  /\ mode = "lazy"
  /\ Cardinality(LibKeys(masterLibraries)) = 2
  /\ \E r \in Consumed("fallback") :
       /\ \A a \in LibKeys(masterLibraries) : r \in Held(masterLibraries.lib[a])
       /\ codeObjectFile[r] \in OwnersOf(r)

\* C22 (match table completeness): with the match table enabled, once every
\* tuple is loaded, every solution of every library that was not skipped
\* has, under its index, the table entry of its own source file and local
\* index, in every merge mode.
C22_MatchTableComplete ==
  (pc = "loading" /\ pending = {} /\ GenSolTable = TRUE) =>
    \A f \in LogicFiles :
      fileArch[f] # "" =>
        \A r \in FileRecs(f) :
          /\ solIndex[r] \in DOMAIN matchTable
          /\ matchTable[solIndex[r]] = <<f, r[2]>>

(***************************************************************************)
(* generateLogicDataAndSolutions as a function of the arrival order of the *)
(* loaded tuples                                                            *)
(***************************************************************************)
\* the state of the loop before the first tuple arrives (lines 642-650)
LoopStart == [ml |-> EmptyLibraries, full |-> NoObject, next |-> 0,
              idx |-> [r \in AllRecs |-> r[2]]]

\* lines 663-677: the loop body for the tuple of file f
LoadTuple(st, f) ==
  LET arch == fileArch[f]
      newLibrary == LoadedLibrary(f, arch, mode)
  IN  IF arch = "" THEN st
      ELSE IF mode = "full"
      THEN LET m == MergeLibrary(st.full[1], newLibrary, DefaultStartIndex, st.idx)
           IN  IF st.full = NoObject
               THEN [st EXCEPT !.full = <<newLibrary>>]
               ELSE [st EXCEPT !.full = <<m.lib>>, !.idx = m.idx]
      ELSE LET m == MergeLibrary(st.ml.lib[arch], newLibrary, st.next, st.idx)
           IN  IF arch \in LibKeys(st.ml)
               THEN [st EXCEPT !.ml = LibrariesPut(@, arch, m.lib), !.next = m.next, !.idx = m.idx]
               ELSE [st EXCEPT !.ml = LibrariesPut(@, arch, newLibrary)]

\* lines 660-682: the tuples taken in the order they arrive
RECURSIVE LoadInOrder(_, _)
LoadInOrder(st, order) ==
  IF order = << >> THEN st ELSE LoadInOrder(LoadTuple(st, Head(order)), Tail(order))

\* the architecture keys, the solutions of each MasterLibrary and the final
\* solutions of a finished call
ContentOf(ml, full, sols) ==
  [keys |-> LibKeys(ml),
   held |-> [a \in LibKeys(ml) |-> Held(ml.lib[a])],
   full |-> IF full = NoObject THEN {} ELSE Range(full[1].solutions),
   solutions |-> sols]

\* lines 660-703 for one arrival order
GeneratedContent(order) ==
  LET st == LoadInOrder(LoopStart, order)
      fm == FallbackMerged(st.ml, st.idx).ml
  IN  IF mode = "full"
      THEN ContentOf(st.ml, st.full, IF st.full = NoObject THEN {} ELSE Range(st.full[1].solutions))
      ELSE ContentOf(fm, st.full, UNION {Held(fm.lib[a]) : a \in LibKeys(fm)})

ArrivalOrders == Permutations(LogicFiles)

\* C23 (load-order independence of content): a finished call ends with the
\* architecture keys, the solutions of each MasterLibrary and the final set of
\* solutions that every other arrival order of the same loaded tuples ends
\* with.
C23_LoadOrderIndependence ==
  pc = "done" =>
    \A order \in ArrivalOrders :
      GeneratedContent(order) = ContentOf(masterLibraries, fullMasterLibrary, solutions)

(***************************************************************************)
(* Strings                                                                 *)
(***************************************************************************)
\* t in s
Contains(s, t) == \E i \in 1..(Len(s) - Len(t) + 1) : SubSeq(s, i, i + Len(t) - 1) = t

LowerChar(c) ==
  CASE c = "A" -> "a" [] c = "B" -> "b" [] c = "C" -> "c" [] c = "D" -> "d"
    [] c = "H" -> "h" [] c = "K" -> "k" [] c = "L" -> "l" [] c = "T" -> "t"
    [] OTHER -> c

RECURSIVE Lower(_)
Lower(s) == IF Len(s) = 0 THEN "" ELSE LowerChar(SubSeq(s, 1, 1)) \o Lower(SubSeq(s, 2, Len(s)))

\* os.path.normcase: lower case on Windows, the path itself elsewhere
normcase(path, os) == IF os = "nt" THEN Lower(path) ELSE path

\* list(dict.fromkeys(seq)): the first occurrence of every element, in order
RECURSIVE FromKeys(_)
FromKeys(seq) ==
  IF seq = << >> THEN << >>
  ELSE LET init == FromKeys(SubSeq(seq, 1, Len(seq) - 1))
           last == seq[Len(seq)]
       IN  IF \E i \in 1..Len(init) : init[i] = last THEN init ELSE Append(init, last)

RECURSIVE Flatten(_)
Flatten(seqs) == IF seqs = << >> THEN << >> ELSE Head(seqs) \o Flatten(Tail(seqs))

(***************************************************************************)
(* Kernels, helper kernels and solutions of the build                      *)
(***************************************************************************)
MaxSolutions == 2       \* most solutions of one build
MaxMergedFiles == 2     \* largest NumMergedFiles

\* a kernel: its key (getKeyNoInternalArgs), its name (getKernelFileBase,
\* getKernelName) and the state the build reads
Kernel(key, name, lang, isa) ==
  [key |-> key, name |-> name, KernelLanguage |-> lang, ISA |-> isa, codeObjectFile |-> None]

\* a helper kernel object: its generated name and the object it is
Helper(name, obj) == [name |-> name, obj |-> obj]

Solution(id, arch, lazy, ks, hs) ==
  [id |-> id, arch |-> arch, lazy |-> lazy, kernels |-> ks, helpers |-> hs]

SolutionUniverse ==
  { Solution(1, "gfx900", "TensileLibrary_A_gfx900",
             <<Kernel(1, "Ka", "Assembly", "gfx900")>>, << >>),
    Solution(2, "gfx900", "TensileLibrary_A_gfx900",
             <<Kernel(2, "Kb", "Assembly", "gfx900"), Kernel(1, "Ka", "Assembly", "gfx900")>>,
             <<Helper("Ha", 1)>>),
    Solution(3, "gfx90a", "TensileLibrary_B_gfx90a",
             <<Kernel(3, "Kc", "Source", "gfx90a")>>, <<Helper("Ha", 2)>>),
    Solution(4, "fallback", "TensileLibrary_A_fallback",
             <<Kernel(4, "Kd", "Source", "gfx900")>>, << >>) }

\* splitArchs(): the targets source kernels are built for in the builds
BuildArchs == <<"gfx900", "gfx90a-xnack+", "gfx90a-xnack-">>
\* line 979: the gfx names of the supported ISAs
supportedArchs == {"gfx900", "gfx90a"}
\* line 578: LibraryFormat is msgpack
libraryExt == ".dat"

\* solution.getKernels(): in lazy mode the kernels carry the codeObjectFile
\* stamped on their solution (line 697)
getKernels(solution, m) ==
  [i \in 1..Len(solution.kernels) |->
     [solution.kernels[i] EXCEPT !.codeObjectFile = IF m = "lazy" THEN solution.lazy ELSE None]]

getKeyNoInternalArgs(kernel) == kernel.key
getKernelFileBase(kernel) == kernel.name
getKernelName(kernel) == kernel.name

(***************************************************************************)
(* generateKernelObjectsFromSolutions (lines 610-631)                      *)
(***************************************************************************)
\* every kernel is appended, its key seen or not
EveryKernel(ks) == ks

\* lines 617-623: a kernel is appended unless its key was seen
RECURSIVE FirstByKey(_)
FirstByKey(ks) ==
  IF ks = << >> THEN << >>
  ELSE LET init == FirstByKey(SubSeq(ks, 1, Len(ks) - 1))
           last == ks[Len(ks)]
       IN  IF \E i \in 1..Len(init) : getKeyNoInternalArgs(init[i]) = getKeyNoInternalArgs(last)
           THEN init ELSE Append(init, last)

ExtractKernels(sols, m) == FirstByKey(Flatten([i \in 1..Len(sols) |-> getKernels(sols[i], m)]))

\* lines 624-630: the helper objects of all solutions, duplicates (equal
\* objects) removed by dict.fromkeys
ExtractHelpers(sols) == FromKeys(Flatten([i \in 1..Len(sols) |-> sols[i].helpers]))

\* lines 626-627
ExtractHelperNames(sols) == {h.name : h \in Range(Flatten([i \in 1..Len(sols) |-> sols[i].helpers]))}

(***************************************************************************)
(* buildObjectFileNames (lines 426-548), buildObjectFilePaths (551-603).   *)
(* Library files are named relative to <outputPath>/library.               *)
(***************************************************************************)
\* re.search(r"gfx.*$", name): whether it matches, and the match
HasGfx(name) == Contains(name, "gfx")
GfxMatch(name) ==
  LET i == Min({j \in 1..(Len(name) - 2) : SubSeq(name, j, j + 2) = "gfx"})
  IN  SubSeq(name, i, Len(name))

\* the name without the match, and the GPU family of a target
Stem(name) == SubSeq(name, 1, Len(name) - Len(GfxMatch(name)))
Family(target) == SubSeq(target, 1, Min({4, Len(target)}))

\* one name per target of the family of the match
addxnackFamily(name, ext, archs) ==
  {Stem(name) \o x \o ext : x \in {a \in Range(archs) : Family(a) = Family(GfxMatch(name))}}

\* lines 512-517, for a name re.search matches
addxnack(name, ext, archs) ==
  LET arch == GfxMatch(name)
  IN  IF arch \in Range(archs)
      THEN {name \o ext}
      ELSE {name \o SubSeq(xnack, Len(arch) + 1, Len(xnack)) \o ext :
              xnack \in {a \in Range(archs) : Contains(a, arch)}}

\* kernel._state.get("codeObjectFile", "")
CodeObjectFileOr(kernel, default) ==
  IF kernel.codeObjectFile = None THEN default ELSE kernel.codeObjectFile

\* lines 523-525, 531-533
LazyCond(kernel, lang) ==
  /\ kernel.codeObjectFile # None
  /\ ~Contains(kernel.codeObjectFile, "fallback")
  /\ kernel.KernelLanguage = lang

\* lines 530-537: the source libraries of the lazy code object files
LazySourceLibFiles(ks) ==
  UNION {addxnack(k.codeObjectFile, ".hsaco", sourceArchs) :
           k \in {x \in Range(ks) : LazyCond(x, "Source")}}

\* lines 484-509, 520, 535: sourceLibFiles
SourceLibFiles(ks, hs, mf, n, m) ==
  LET K == Range(ks)
      A == Range(sourceArchs)
      merged == {"Kernels.so-000-" \o arch \o ".hsaco" : arch \in A}
      fallbackLibs == {k.codeObjectFile : k \in {x \in K : Contains(CodeObjectFileOr(x, ""), "fallback")}}
      fromSource ==
        IF ~mf THEN {h.name \o ".so-000-" \o arch \o ".hsaco" : h \in Range(hs), arch \in A}
        ELSE IF n > 1
        THEN {"Kernels" \o ToString(i) \o ".so-000-" \o arch \o ".hsaco" : i \in 0..(n - 1), arch \in A}
        ELSE IF m = "lazy"
        THEN {name \o "_" \o arch \o ".hsaco" : name \in fallbackLibs, arch \in A} \cup merged
        ELSE merged
  IN  fromSource \cup (IF m = "lazy" THEN LazySourceLibFiles(ks) ELSE {})

\* lines 519-546: asmLibFiles
AsmLibFiles(ks, mf, m) ==
  LET asmKernels == {k \in Range(ks) : k.KernelLanguage = "Assembly"}
  IN  IF m = "lazy"
      THEN {k.codeObjectFile \o ".co" : k \in {x \in Range(ks) : LazyCond(x, "Assembly")}}
      ELSE IF mf
      THEN {"TensileLibrary_" \o k.ISA \o ".co" : k \in asmKernels}
      ELSE {getKernelFileBase(k) \o "_" \o k.ISA \o ".co" : k \in asmKernels}

\* line 536 raises when a code object file name holds no gfx
PlannerRaises(ks, m) ==
  m = "lazy" /\ \E k \in Range(ks) : LazyCond(k, "Source") /\ ~HasGfx(k.codeObjectFile)

\* libMetadataPaths with the global path planned in every mode
LibMetadataPathsGlobal(ml, m) ==
  {"TensileLibrary" \o libraryExt} \cup
  UNION {{(IF m = "lazy" THEN "TensileLibrary_lazy_" ELSE "TensileLibrary_") \o arch \o libraryExt}
           \cup {name \o libraryExt : name \in DOMAIN ml.lib[arch].lazyLibraries} :
         arch \in LibKeys(ml)}

\* lines 578-595: libMetadataPaths
LibMetadataPaths(ml, m) ==
  (IF m = "full" THEN {"TensileLibrary" \o libraryExt} ELSE {}) \cup
  UNION {{(IF m = "lazy" THEN "TensileLibrary_lazy_" ELSE "TensileLibrary_") \o arch \o libraryExt}
           \cup {name \o libraryExt : name \in DOMAIN ml.lib[arch].lazyLibraries} :
         arch \in LibKeys(ml)}

(***************************************************************************)
(* SourceCommands.buildSourceCodeObjectFiles and                           *)
(* AssemblyCommands.buildAssemblyCodeObjectFiles: the code object files    *)
(* the toolchain builds from the kernel files and kernels handed to it.    *)
(***************************************************************************)
\* the xnack variant of a target
XnackVariant(target) ==
  IF Contains(target, "xnack+") THEN "xnack+"
  ELSE IF Contains(target, "xnack-") THEN "xnack-" ELSE ""

\* the code objects compiled from kernel source file base
SourceCodeObjects(base) ==
  IF Contains(base, "TensileLibrary") /\ Contains(base, "fallback")
  THEN {base \o "_" \o arch \o ".hsaco" : arch \in Range(sourceArchs)}
  ELSE IF Contains(base, "TensileLibrary")
  THEN LET variantName(arch) ==
             IF XnackVariant(arch) = "" THEN base ELSE base \o "-" \o XnackVariant(arch)
       IN  {variantName(arch) \o ".hsaco" :
              arch \in {a \in Range(sourceArchs) : Contains(variantName(a), a)}}
  ELSE {base \o ".so-000-" \o arch \o ".hsaco" : arch \in Range(sourceArchs)}

buildSourceCodeObjectFiles(files) == UNION {SourceCodeObjects(files[i]) : i \in 1..Len(files)}

buildAssemblyCodeObjectFiles(ks, mf, n, m) ==
  LET asmKernels == {k \in ks : k.KernelLanguage = "Assembly"}
  IN  IF mf \/ n > 1 \/ m = "lazy"
      THEN {"TensileLibrary_" \o k.ISA \o ".co" : k \in {x \in asmKernels : x.codeObjectFile = None}}
           \cup {k.codeObjectFile \o ".co" : k \in {x \in asmKernels : x.codeObjectFile # None}}
      ELSE {getKernelFileBase(k) \o "_" \o k.ISA \o ".co" : k \in asmKernels}

(***************************************************************************)
(* processKernelSource (lines 72-90)                                       *)
(***************************************************************************)
\* line 286: the error code of a kernel that cannot be generated
FatalCode == -2
\* line 88: the error code returned when the generator raises
RaisedCode == 1

Outcomes == {"ok", "empty", "fatal", "raised"}

\* getSourceFileString: an assembly kernel goes to its own .s file and gives
\* no source text, a source kernel gives its text or none
OutcomesOf(kernel) ==
  IF kernel.KernelLanguage = "Assembly" THEN Outcomes \ {"ok"} ELSE Outcomes

\* the result tuple (err, src, kernelName, filename) of one kernel; the
\* header text follows the source text.  forKey names the kernel the tuple
\* was generated from; Python's == on tuples does not see it.
processKernelSource(kernel, outcome) ==
  [err |-> CASE outcome = "fatal" -> FatalCode [] outcome = "raised" -> RaisedCode [] OTHER -> 0,
   src |-> IF outcome = "ok" THEN "src_" \o getKernelFileBase(kernel) ELSE "",
   kernelName |-> getKernelFileBase(kernel),
   filename |-> IF outcome = "raised" THEN None ELSE kernel.codeObjectFile,
   forKey |-> getKeyNoInternalArgs(kernel)]

ResultTuple(r) == [err |-> r.err, src |-> r.src, kernelName |-> r.kernelName, filename |-> r.filename]

(***************************************************************************)
(* The cascade of writeSolutionsAndKernels (lines 280-309)                 *)
(***************************************************************************)
\* lines 284-294: the kernels, kernel keys and results queued for removal
ScanKernels(ks, res) ==
  Flatten([i \in 1..Len(res) |-> IF res[i].err = FatalCode THEN <<ks[i]>> ELSE << >>])
ScanNames(ks, res) ==
  FromKeys(Flatten([i \in 1..Len(res) |->
             IF res[i].err = FatalCode THEN <<getKeyNoInternalArgs(ks[i])>> ELSE << >>]))
ScanResults(res) == SelectSeq(res, LAMBDA r : r.err = FatalCode)

\* result tuples taken for equal when they name the same kernel
SameKernelName(a, b, tuples) == IF tuples THEN a.kernelName = b.kernelName ELSE a = b

\* == of Python: result tuples compare by their items, objects as they are
Same(a, b, tuples) == IF tuples THEN ResultTuple(a) = ResultTuple(b) ELSE a = b

\* list.remove(x) for every x of xs: the first element equal to x is removed;
\* ValueError when none is
RECURSIVE RemoveEach(_, _, _)
RemoveEach(acc, xs, tuples) ==
  IF xs = << >> \/ acc.raised THEN acc
  ELSE LET hits == {i \in 1..Len(acc.list) : Same(acc.list[i], Head(xs), tuples)}
       IN  IF hits = {}
           THEN [acc EXCEPT !.raised = TRUE]
           ELSE RemoveEach([raised |-> FALSE,
                            list |-> SubSeq(acc.list, 1, Min(hits) - 1) \o
                                     SubSeq(acc.list, Min(hits) + 1, Len(acc.list))],
                           Tail(xs), tuples)

\* the invalid solutions are left in the list
InvalidSolutionsKept(sols, names, m) == << >>

\* lines 299-305: the solutions with a kernel whose key is queued
InvalidSolutions(sols, names, m) ==
  SelectSeq(sols, LAMBDA s : \E i \in 1..Len(getKernels(s, m)) :
                     getKeyNoInternalArgs(getKernels(s, m)[i]) \in Range(names))

\* lines 297-309: what is left of the three lists, and whether a remove raised
CascadeRemoval(ks, sols, res, rk, rkn, rr, m) ==
  LET k1 == RemoveEach([raised |-> FALSE, list |-> ks], rk, FALSE)
      s1 == RemoveEach([raised |-> FALSE, list |-> sols], InvalidSolutions(sols, rkn, m), FALSE)
      r1 == RemoveEach([raised |-> FALSE, list |-> res], rr, TRUE)
  IN  [raised |-> k1.raised \/ s1.raised \/ r1.raised,
       kernels |-> k1.list,
       solutions |-> IF k1.raised THEN sols ELSE s1.list,
       results |-> IF k1.raised \/ s1.raised THEN res ELSE r1.list]

(***************************************************************************)
(* buildKernelSourceAndHeaderFiles (lines 154-230)                         *)
(***************************************************************************)
\* lines 173-198 for one result; acc = [raised, errs, order, group, count]
GroupResult(acc, r, mf, n) ==
  LET errs == IF r.err # 0 THEN DictPut(acc.errs, r.kernelName, r.err) ELSE acc.errs
      typeError == r.filename = None /\ mf /\ n > 1
      file == IF r.filename # None THEN r.filename
              ELSE IF mf THEN "Kernels" ELSE r.kernelName
      old == IF file \in DOMAIN acc.group THEN acc.group[file] ELSE << >>
  IN  IF r.src = "" THEN [acc EXCEPT !.errs = errs]
      ELSE IF typeError THEN [acc EXCEPT !.errs = errs, !.raised = TRUE]
      ELSE [raised |-> FALSE,
            errs |-> errs,
            order |-> IF file \in DOMAIN acc.group THEN acc.order ELSE Append(acc.order, file),
            group |-> DictPut(acc.group, file, Append(old, r.kernelName)),
            count |-> acc.count + 1]

RECURSIVE GroupResults(_, _, _, _)
GroupResults(acc, res, mf, n) ==
  IF res = << >> \/ acc.raised THEN acc
  ELSE GroupResults(GroupResult(acc, Head(res), mf, n), Tail(res), mf, n)

\* lines 200-206: the kernel file kept for the helper kernels
EnsureKernelsFile(acc, mf, n, m) ==
  LET file == "Kernels" \o (IF n > 1 THEN "0" ELSE "")
  IN  IF ~acc.raised /\ (m = "lazy" \/ (mf /\ acc.count = 0))
      THEN [acc EXCEPT !.order = IF file \in DOMAIN acc.group THEN @ ELSE Append(@, file),
                       !.group = DictPut(@, file, << >>)]
      ELSE acc

buildKernelSourceAndHeaderFiles(res, errs, mf, n, m) ==
  EnsureKernelsFile(
    GroupResults([raised |-> FALSE, errs |-> errs, order |-> << >>, group |-> EmptyDict,
                  count |-> 0], res, mf, n),
    mf, n, m)

(***************************************************************************)
(* The build: TensileCreateLibrary from line 915 on, or a direct call of   *)
(* writeSolutionsAndKernels.                                               *)
(***************************************************************************)
Entries == {"TensileCreateLibrary", "writeSolutionsAndKernels"}

\* the lists of distinct solutions a build may be handed
SolutionLists ==
  {s \in UNION {[1..n -> SolutionUniverse] : n \in 0..MaxSolutions} :
     \A i, j \in DOMAIN s : i # j => s[i] # s[j]}

DictOfSeq(seq) == [i \in 0..(Len(seq) - 1) |-> seq[i + 1]]

\* lines 660-690: the libraries generateLogicDataAndSolutions is left with
\* when the logic files hold the solutions sols: one library per
\* architecture, the fallback solutions merged into each
LibraryOf(sols, arch, m) ==
  LET members == SelectSeq(sols, LAMBDA s : s.arch = arch) \o
                 SelectSeq(sols, LAMBDA s : s.arch = "fallback")
      names == FromKeys([i \in 1..Len(members) |-> members[i].lazy])
  IN  IF m = "lazy"
      THEN Library(EmptyDict, names,
                   [n \in Range(names) |-> DictOfSeq(SelectSeq(members, LAMBDA s : s.lazy = n))])
      ELSE Library(DictOfSeq(members), << >>, EmptyDict)

BuildLibraries(sols, m) ==
  LET own == SelectSeq(sols, LAMBDA s : s.arch # "fallback")
      archs == FromKeys([i \in 1..Len(own) |-> own[i].arch])
  IN  [order |-> archs, lib |-> [a \in Range(archs) |-> LibraryOf(sols, a, m)]]

\* lines 692-703: the solutions collected from the libraries
LibrarySolutions(lib) ==
  [i \in 1..Cardinality(DOMAIN lib.solutions) |-> lib.solutions[i - 1]] \o
  Flatten([j \in 1..Len(lib.lazyNames) |->
             LET d == lib.lazyLibraries[lib.lazyNames[j]]
             IN  [i \in 1..Cardinality(DOMAIN d) |-> d[i - 1]]])

CollectedSolutions(ml, full, m) ==
  IF m = "full" THEN LibrarySolutions(full[1])
  ELSE FromKeys(Flatten([j \in 1..Len(ml.order) |-> LibrarySolutions(ml.lib[ml.order[j]])]))

\* one line of output and the names it is about
Msg(text, about) == [msg |-> text, about |-> about]

\* the merge is not run
MergeIdle ==
  /\ fileArch = Idle /\ GenSolTable = Idle /\ pending = Idle /\ nextSolIndex = Idle
  /\ matchTable = Idle /\ solIndex = Idle /\ codeObjectFile = Idle

\* the locals at the start of a build (lines 239-260) and a fresh output directory
BuildStart ==
  /\ kernelHelperObjs = << >> /\ results = << >>
  /\ removeKernels = << >> /\ removeKernelNames = << >> /\ removeResults = << >>
  /\ kernelsWithBuildErrs = EmptyDict
  /\ kernelFiles = << >> /\ filesWritten = EmptyDict /\ kernelsToBuild = << >>
  /\ codeObjectFiles = {}
  /\ sourceLibPaths = {} /\ asmLibPaths = {} /\ libMetadataPaths = {}
  /\ manifest = None
  /\ libraryDir = {}
  /\ printed = << >>
  /\ exitCause = ""

Init ==
  /\ entry \in Entries
  /\ mode \in Modes
  /\ MergeFiles \in BOOLEAN
  /\ mode = "lazy" => MergeFiles                                    \* line 878
  /\ NumMergedFiles \in 1..MaxMergedFiles
  /\ GenerateSourcesAndExit \in BOOLEAN
  /\ GenerateManifestAndExit \in (IF entry = "TensileCreateLibrary" THEN BOOLEAN ELSE {FALSE})
  /\ errorTolerant \in (IF entry = "TensileCreateLibrary" THEN {FALSE} ELSE BOOLEAN)  \* line 961
  /\ osName \in {"posix", "nt"}
  /\ sourceArchs = BuildArchs
  /\ solutions \in SolutionLists
  /\ IF entry = "TensileCreateLibrary"
     THEN /\ mode = "full" => solutions # << >>
          /\ masterLibraries = (IF mode = "full" THEN EmptyLibraries
                                ELSE BuildLibraries(solutions, mode))
          /\ fullMasterLibrary = (IF mode = "full"
                                  THEN <<Library(DictOfSeq(solutions), << >>, EmptyDict)>>
                                  ELSE NoObject)
          /\ solutions = CollectedSolutions(masterLibraries, fullMasterLibrary, mode)
     ELSE /\ masterLibraries = EmptyLibraries
          /\ fullMasterLibrary = NoObject
  /\ pc = "extract"
  /\ kernels = << >>
  /\ MergeIdle
  /\ BuildStart

\* line 917
GenerateKernelObjects ==
  /\ pc = "extract"
  /\ kernels' = ExtractKernels(solutions, mode)
  /\ kernelHelperObjs' = ExtractHelpers(solutions)
  /\ pc' = CASE entry = "TensileCreateLibrary" -> "plan"
             [] entry = "writeSolutionsAndKernels" -> "generate"
             [] OTHER -> "returned"
  /\ UNCHANGED <<mode, masterLibraries, fullMasterLibrary, solutions, fileArch,
                GenSolTable, pending, nextSolIndex, matchTable, solIndex, codeObjectFile,
                entry, MergeFiles, NumMergedFiles, GenerateSourcesAndExit,
                GenerateManifestAndExit, errorTolerant, osName, sourceArchs, results, removeKernels,
                removeKernelNames, removeResults, kernelsWithBuildErrs, kernelFiles,
                filesWritten, kernelsToBuild, codeObjectFiles, sourceLibPaths,
                asmLibPaths, libMetadataPaths, manifest, libraryDir, printed, exitCause>>

\* lines 928-940
PlanOutputs ==
  /\ pc = "plan"
  /\ IF PlannerRaises(kernels, mode)
     THEN /\ pc' = "failed"
          /\ exitCause' = "AttributeError"
          /\ UNCHANGED <<sourceLibPaths, asmLibPaths, libMetadataPaths>>
     ELSE /\ sourceLibPaths' = SourceLibFiles(kernels, kernelHelperObjs, MergeFiles,
                                              NumMergedFiles, mode)
          /\ asmLibPaths' = AsmLibFiles(kernels, MergeFiles, mode)
          /\ libMetadataPaths' = LibMetadataPaths(masterLibraries, mode)
          /\ pc' = "manifest"
          /\ UNCHANGED exitCause
  /\ UNCHANGED <<mode, masterLibraries, fullMasterLibrary, solutions, fileArch,
                GenSolTable, pending, nextSolIndex, matchTable, solIndex, codeObjectFile,
                entry, MergeFiles, NumMergedFiles, GenerateSourcesAndExit,
                GenerateManifestAndExit, errorTolerant, osName, sourceArchs, kernels,
                kernelHelperObjs, results, removeKernels, removeKernelNames,
                removeResults, kernelsWithBuildErrs, kernelFiles, filesWritten,
                kernelsToBuild, codeObjectFiles, manifest, libraryDir, printed>>

\* the return of line 953 is dropped
AfterManifestGenerates(exit) == "generate"

\* lines 952-953
AfterManifest(exit) == IF exit THEN "done" ELSE "generate"

\* lines 943-953
WriteManifest ==
  /\ pc = "manifest"
  /\ manifest' = libMetadataPaths \cup sourceLibPaths \cup asmLibPaths
  /\ libraryDir' = libraryDir \cup {"TensileManifest.txt"}
  /\ pc' = AfterManifest(GenerateManifestAndExit)
  /\ UNCHANGED <<mode, masterLibraries, fullMasterLibrary, solutions, fileArch,
                GenSolTable, pending, nextSolIndex, matchTable, solIndex, codeObjectFile,
                entry, MergeFiles, NumMergedFiles, GenerateSourcesAndExit,
                GenerateManifestAndExit, errorTolerant, osName, sourceArchs, kernels,
                kernelHelperObjs, results, removeKernels, removeKernelNames,
                removeResults, kernelsWithBuildErrs, kernelFiles, filesWritten,
                kernelsToBuild, codeObjectFiles, sourceLibPaths, asmLibPaths,
                libMetadataPaths, printed, exitCause>>

\* lines 277-278: one result per kernel, in kernel order
GenerateKernels ==
  /\ pc = "generate"
  /\ \E outcome \in [1..Len(kernels) -> Outcomes] :
       /\ \A i \in 1..Len(kernels) : outcome[i] \in OutcomesOf(kernels[i])
       /\ results' = [i \in 1..Len(kernels) |-> processKernelSource(kernels[i], outcome[i])]
  /\ pc' = "scan"
  /\ UNCHANGED <<mode, masterLibraries, fullMasterLibrary, solutions, fileArch,
                GenSolTable, pending, nextSolIndex, matchTable, solIndex, codeObjectFile,
                entry, MergeFiles, NumMergedFiles, GenerateSourcesAndExit,
                GenerateManifestAndExit, errorTolerant, osName, sourceArchs, kernels,
                kernelHelperObjs, removeKernels, removeKernelNames, removeResults,
                kernelsWithBuildErrs, kernelFiles, filesWritten, kernelsToBuild,
                codeObjectFiles, sourceLibPaths, asmLibPaths, libMetadataPaths, manifest,
                libraryDir, printed, exitCause>>

\* the build goes on whatever failed
AbortsBuildNever(failed, tolerant) == FALSE

\* line 295
AbortsBuild(failed, tolerant) == Len(failed) > 0 /\ ~tolerant

\* lines 280-296
ScanBuildResults ==
  LET failed == ScanKernels(kernels, results)
      reports == [i \in 1..Len(failed) |->
                    Msg("Kernel generation failed for kernel", {getKernelName(failed[i])})]
  IN  /\ pc = "scan"
      /\ removeKernels' = failed
      /\ removeKernelNames' = ScanNames(kernels, results)
      /\ removeResults' = ScanResults(results)
      /\ IF AbortsBuild(failed, errorTolerant)
         THEN /\ printed' = printed \o reports \o <<Msg("** kernel generation failure **", {})>>
              /\ exitCause' = "** kernel generation failure **"
              /\ pc' = "failed"
         ELSE /\ printed' = IF errorTolerant THEN printed ELSE printed \o reports
              /\ exitCause' = exitCause
              /\ pc' = "cascade"
      /\ UNCHANGED <<mode, masterLibraries, fullMasterLibrary, solutions, fileArch,
                    GenSolTable, pending, nextSolIndex, matchTable, solIndex,
                    codeObjectFile, entry, MergeFiles, NumMergedFiles,
                    GenerateSourcesAndExit, GenerateManifestAndExit, errorTolerant,
                    osName, sourceArchs, kernels, kernelHelperObjs, results, kernelsWithBuildErrs,
                    kernelFiles, filesWritten, kernelsToBuild, codeObjectFiles,
                    sourceLibPaths, asmLibPaths, libMetadataPaths, manifest, libraryDir>>

\* lines 297-309, run at position at
RemoveFailedAt(at, next) ==
  LET c == CascadeRemoval(kernels, solutions, results, removeKernels, removeKernelNames,
                          removeResults, mode)
  IN  /\ pc = at
      /\ kernels' = c.kernels
      /\ solutions' = c.solutions
      /\ results' = c.results
      /\ pc' = IF c.raised THEN "failed" ELSE next
      /\ exitCause' = IF c.raised THEN "ValueError" ELSE exitCause
      /\ UNCHANGED <<mode, masterLibraries, fullMasterLibrary, fileArch, GenSolTable,
                    pending, nextSolIndex, matchTable, solIndex, codeObjectFile, entry,
                    MergeFiles, NumMergedFiles, GenerateSourcesAndExit,
                    GenerateManifestAndExit, errorTolerant, osName, sourceArchs, kernelHelperObjs,
                    removeKernels, removeKernelNames, removeResults,
                    kernelsWithBuildErrs, kernelFiles, filesWritten, kernelsToBuild,
                    codeObjectFiles, sourceLibPaths, asmLibPaths, libMetadataPaths,
                    manifest, libraryDir, printed>>

\* lines 297-309
RemoveFailed == RemoveFailedAt("cascade", "write")

\* lines 314-319: the kernels handed to the assembler
KernelsToBuild(ks, errs, tolerant) ==
  IF tolerant THEN SelectSeq(ks, LAMBDA k : getKernelName(k) \notin DOMAIN errs) ELSE ks

\* lines 311-322
WriteKernelFiles ==
  LET g == buildKernelSourceAndHeaderFiles(results, kernelsWithBuildErrs, MergeFiles,
                                           NumMergedFiles, mode)
      compilationFailed == ~errorTolerant /\ DOMAIN g.errs # {}
  IN  /\ pc = "write"
      /\ kernelsWithBuildErrs' = g.errs
      /\ IF g.raised
         THEN /\ UNCHANGED <<kernelFiles, filesWritten, kernelsToBuild, printed>>
              /\ exitCause' = "TypeError"
              /\ pc' = "failed"
         ELSE /\ kernelFiles' = g.order
              /\ filesWritten' = g.group
              /\ kernelsToBuild' = KernelsToBuild(kernels, g.errs, errorTolerant)
              /\ printed' = IF compilationFailed
                            THEN printed \o <<Msg("Kernel compilation failed in one or more subprocesses",
                                                  DOMAIN g.errs),
                                              Msg("** kernel compilation failure **", {})>>
                            ELSE printed
              /\ exitCause' = IF compilationFailed THEN "** kernel compilation failure **"
                              ELSE exitCause
              /\ pc' = IF compilationFailed THEN "failed" ELSE "helpers"
      /\ UNCHANGED <<mode, masterLibraries, fullMasterLibrary, solutions, fileArch,
                    GenSolTable, pending, nextSolIndex, matchTable, solIndex,
                    codeObjectFile, entry, MergeFiles, NumMergedFiles,
                    GenerateSourcesAndExit, GenerateManifestAndExit, errorTolerant,
                    osName, sourceArchs, kernels, kernelHelperObjs, results, removeKernels,
                    removeKernelNames, removeResults, codeObjectFiles, sourceLibPaths,
                    asmLibPaths, libMetadataPaths, manifest, libraryDir>>

\* lines 325-333: the merged file the helper kernels are appended to
HelperFile(files, mf, n, m) ==
  IF n > 1 /\ Len(files) > 0 THEN <<files[1]>>
  ELSE IF mf \/ m = "lazy" THEN <<"Kernels">>
  ELSE << >>

HelperNames(hs) == [i \in 1..Len(hs) |-> hs[i].name]

\* lines 324-375
WriteHelperKernels ==
  LET merged == HelperFile(kernelFiles, MergeFiles, NumMergedFiles, mode)
      opened == IF merged = << >> \/ merged[1] \in DOMAIN filesWritten
                THEN filesWritten ELSE DictPut(filesWritten, merged[1], << >>)
      own == [i \in 1..Len(kernelHelperObjs) |-> "Kernels/" \o kernelHelperObjs[i].name]
  IN  /\ pc = "helpers"
      /\ IF MergeFiles
         THEN /\ filesWritten' = DictPut(opened, merged[1],
                                         opened[merged[1]] \o HelperNames(kernelHelperObjs))
              /\ kernelFiles' = kernelFiles
         ELSE /\ filesWritten' = [f \in (DOMAIN opened) \cup Range(own) |->
                                    IF f \in Range(own)
                                    THEN <<SubSeq(f, Len("Kernels/") + 1, Len(f))>>
                                    ELSE opened[f]]
              /\ kernelFiles' = kernelFiles \o own
      /\ pc' = "compile"
      /\ UNCHANGED <<mode, masterLibraries, fullMasterLibrary, solutions, fileArch,
                    GenSolTable, pending, nextSolIndex, matchTable, solIndex,
                    codeObjectFile, entry, MergeFiles, NumMergedFiles,
                    GenerateSourcesAndExit, GenerateManifestAndExit, errorTolerant,
                    osName, sourceArchs, kernels, kernelHelperObjs, results, removeKernels,
                    removeKernelNames, removeResults, kernelsWithBuildErrs,
                    kernelsToBuild, codeObjectFiles, sourceLibPaths, asmLibPaths,
                    libMetadataPaths, manifest, libraryDir, printed, exitCause>>

\* os.path.split(kernelFile)[1] without its extension
RECURSIVE Basename(_)
Basename(path) ==
  IF Contains(path, "/")
  THEN Basename(SubSeq(path, Min({i \in 1..Len(path) : SubSeq(path, i, i) = "/"}) + 1, Len(path)))
  ELSE path

\* lines 377-384
BuildCodeObjectFiles ==
  /\ pc = "compile"
  /\ codeObjectFiles' =
       IF GenerateSourcesAndExit THEN codeObjectFiles
       ELSE codeObjectFiles
            \cup buildSourceCodeObjectFiles([i \in 1..Len(kernelFiles) |-> Basename(kernelFiles[i])])
            \cup buildAssemblyCodeObjectFiles(Range(kernelsToBuild), MergeFiles,
                                              NumMergedFiles, mode)
  /\ libraryDir' = libraryDir \cup codeObjectFiles'
  /\ pc' = IF entry = "TensileCreateLibrary" THEN "reconcile" ELSE "returned"
  /\ UNCHANGED <<mode, masterLibraries, fullMasterLibrary, solutions, fileArch,
                GenSolTable, pending, nextSolIndex, matchTable, solIndex, codeObjectFile,
                entry, MergeFiles, NumMergedFiles, GenerateSourcesAndExit,
                GenerateManifestAndExit, errorTolerant, osName, sourceArchs, kernels,
                kernelHelperObjs, results, removeKernels, removeKernelNames,
                removeResults, kernelsWithBuildErrs, kernelFiles, filesWritten,
                kernelsToBuild, sourceLibPaths, asmLibPaths, libMetadataPaths, manifest,
                printed, exitCause>>

\* lines 964-969
Unexpected(produced, planned, os) ==
  {normcase(p, os) : p \in produced} \ {normcase(p, os) : p \in planned}
Missing(produced, planned, os) ==
  {normcase(p, os) : p \in planned} \ {normcase(p, os) : p \in produced}

\* the assertion of line 975 is dropped
UnexpectedFailsNever(sanityCheck0) == FALSE

\* line 975
UnexpectedFails(sanityCheck0) == sanityCheck0 # {}
\* lines 976-977
MissingFails(sanityCheck1, sourcesOnly) == ~sourcesOnly /\ sanityCheck1 # {}

\* lines 964-977
Reconcile ==
  LET bothLibSet == sourceLibPaths \cup asmLibPaths
      sanityCheck0 == Unexpected(codeObjectFiles, bothLibSet, osName)
      sanityCheck1 == Missing(codeObjectFiles, bothLibSet, osName)
  IN  /\ pc = "reconcile"
      /\ IF UnexpectedFails(sanityCheck0)
         THEN /\ printed' = Append(printed, Msg("Unexpected code object files", sanityCheck0))
              /\ exitCause' = "AssertionError: Unexpected code object files"
              /\ pc' = "failed"
         ELSE IF MissingFails(sanityCheck1, GenerateSourcesAndExit)
         THEN /\ printed' = Append(printed, Msg("Missing expected code object files", sanityCheck1))
              /\ exitCause' = "AssertionError: Missing expected code object files"
              /\ pc' = "failed"
         ELSE /\ UNCHANGED <<printed, exitCause>>
              /\ pc' = "metadata"
      /\ UNCHANGED <<mode, masterLibraries, fullMasterLibrary, solutions, fileArch,
                    GenSolTable, pending, nextSolIndex, matchTable, solIndex,
                    codeObjectFile, entry, MergeFiles, NumMergedFiles,
                    GenerateSourcesAndExit, GenerateManifestAndExit, errorTolerant,
                    osName, sourceArchs, kernels, kernelHelperObjs, results, removeKernels,
                    removeKernelNames, removeResults, kernelsWithBuildErrs, kernelFiles,
                    filesWritten, kernelsToBuild, codeObjectFiles, sourceLibPaths,
                    asmLibPaths, libMetadataPaths, manifest, libraryDir>>

\* lines 983-1003; LibraryIO.write adds the extension of the library format
MetadataWritten(ml, m) ==
  IF m = "full" THEN {"TensileLibrary" \o libraryExt}
  ELSE UNION {{(IF m = "lazy" THEN "TensileLibrary_lazy_" ELSE "TensileLibrary_") \o arch \o libraryExt}
                \cup {name \o libraryExt : name \in DOMAIN ml.lib[arch].lazyLibraries} :
              arch \in LibKeys(ml) \cap supportedArchs}

\* lines 979-1003
WriteLibraries ==
  /\ pc = "metadata"
  /\ libraryDir' = libraryDir \cup MetadataWritten(masterLibraries, mode)
  /\ pc' = "exists"
  /\ UNCHANGED <<mode, masterLibraries, fullMasterLibrary, solutions, fileArch,
                GenSolTable, pending, nextSolIndex, matchTable, solIndex, codeObjectFile,
                entry, MergeFiles, NumMergedFiles, GenerateSourcesAndExit,
                GenerateManifestAndExit, errorTolerant, osName, sourceArchs, kernels,
                kernelHelperObjs, results, removeKernels, removeKernelNames,
                removeResults, kernelsWithBuildErrs, kernelFiles, filesWritten,
                kernelsToBuild, codeObjectFiles, sourceLibPaths, asmLibPaths,
                libMetadataPaths, manifest, printed, exitCause>>

\* lines 1011-1016: the planned paths absent from disk, in the order of the chain
MissingOnDisk(paths, dir) == paths \ dir

FirstMissing(dir) ==
  IF MissingOnDisk(libMetadataPaths, dir) # {} THEN MissingOnDisk(libMetadataPaths, dir)
  ELSE IF MissingOnDisk(sourceLibPaths, dir) # {} THEN MissingOnDisk(sourceLibPaths, dir)
  ELSE MissingOnDisk(asmLibPaths, dir)

\* lines 1009-1016
CheckFileExistence ==
  /\ pc = "exists"
  /\ IF FirstMissing(libraryDir) = {}
     THEN /\ pc' = "done"
          /\ UNCHANGED <<printed, exitCause>>
     ELSE \E filePath \in FirstMissing(libraryDir) :
            /\ printed' = Append(printed, Msg("File is missing.", {filePath}))
            /\ exitCause' = "File is missing."
            /\ pc' = "failed"
  /\ UNCHANGED <<mode, masterLibraries, fullMasterLibrary, solutions, fileArch,
                GenSolTable, pending, nextSolIndex, matchTable, solIndex, codeObjectFile,
                entry, MergeFiles, NumMergedFiles, GenerateSourcesAndExit,
                GenerateManifestAndExit, errorTolerant, osName, sourceArchs, kernels,
                kernelHelperObjs, results, removeKernels, removeKernelNames,
                removeResults, kernelsWithBuildErrs, kernelFiles, filesWritten,
                kernelsToBuild, codeObjectFiles, sourceLibPaths, asmLibPaths,
                libMetadataPaths, manifest, libraryDir>>

Next ==
  \/ GenerateKernelObjects
  \/ PlanOutputs
  \/ WriteManifest
  \/ GenerateKernels
  \/ ScanBuildResults
  \/ RemoveFailed
  \/ WriteKernelFiles
  \/ WriteHelperKernels
  \/ BuildCodeObjectFiles
  \/ Reconcile
  \/ WriteLibraries
  \/ CheckFileExistence

Spec == Init /\ [][Next]_vars

(***************************************************************************)
(* Properties of the build                                                 *)
(***************************************************************************)
\* the kernels whose result carries the fatal code (results are in kernel order)
FatalKernels == {kernels[i] : i \in {j \in 1..Len(results) : results[j].err = FatalCode}}

AfterCascade == pc \in {"write", "helpers", "compile", "returned"}

\* C3 (cascade consistency): in error-tolerant mode the scan queues exactly
\* the kernels whose result carries the fatal code, the cascade completes,
\* and after it no queued kernel K is in the kernel list, no surviving
\* solution has a kernel with K's key, and no surviving result is the one
\* generated for K.
C3_CascadeConsistency ==
  errorTolerant = TRUE =>
    /\ pc = "cascade" => Range(removeKernels) = FatalKernels
    /\ pc = "failed" => exitCause # "ValueError"
    /\ AfterCascade =>
         \A K \in Range(removeKernels) :
           /\ K \notin Range(kernels)
           /\ \A s \in Range(solutions) : \A k \in Range(getKernels(s, mode)) :
                getKeyNoInternalArgs(k) # getKeyNoInternalArgs(K)
           /\ \A r \in Range(results) : r.forKey # getKeyNoInternalArgs(K)

\* a tolerant build after the cascade: a kernel failed and took a solution
\* with it, another solution and its kernel survive
C3_Witness ==
  /\ errorTolerant = TRUE
  /\ pc = "write"
  /\ removeKernels # << >>
  /\ solutions # << >>
  /\ kernels # << >>
  /\ results # << >>
  /\ \E s \in SolutionUniverse : \E k \in Range(getKernels(s, mode)) :
       getKeyNoInternalArgs(k) \in Range(removeKernelNames)

\* the metadata files of the libraries, planned or written
MetadataFiles == libMetadataPaths \cup
  (IF masterLibraries = EmptyLibraries /\ fullMasterLibrary = NoObject THEN {}
   ELSE MetadataWritten(masterLibraries, mode))

\* C4 (fail-fast abort): with error-tolerant mode off, a result carrying the
\* fatal code ends the build at the scan: every failing kernel has been
\* reported before the abort message, and no kernel file group, no code
\* object and no library metadata file has been written.
C4_FailFastAbort ==
  (errorTolerant = FALSE /\ pc # "scan" /\ \E i \in 1..Len(results) : results[i].err = FatalCode) =>
    /\ pc = "failed"
    /\ exitCause = "** kernel generation failure **"
    /\ printed # << >>
    /\ printed[Len(printed)] = Msg("** kernel generation failure **", {})
    /\ \A i \in 1..Len(results) :
         results[i].err = FatalCode =>
           \E j \in 1..(Len(printed) - 1) :
             printed[j] = Msg("Kernel generation failed for kernel", {results[i].kernelName})
    /\ kernelFiles = << >>
    /\ filesWritten = EmptyDict
    /\ codeObjectFiles = {}
    /\ libraryDir \cap (MetadataFiles \cup sourceLibPaths \cup asmLibPaths) = {}

\* TensileCreateLibrary aborted with two failing kernels
C4_Witness ==
  /\ entry = "TensileCreateLibrary"
  /\ pc = "failed"
  /\ exitCause = "** kernel generation failure **"
  /\ Len(removeKernels) = 2
  /\ Len(results) > 2

\* C5 (plan/actual equality): a build with no generation failure, not in
\* generate-sources-and-exit mode, gets through the kernel file writing, and
\* the code objects it produced are exactly the planned source and assembly
\* library paths.
C5_PlanActualEquality ==
  (entry = "TensileCreateLibrary" /\ GenerateSourcesAndExit = FALSE) =>
    /\ pc = "reconcile" => codeObjectFiles = sourceLibPaths \cup asmLibPaths
    /\ pc = "failed" => exitCause # "TypeError"

\* a produced path that, compared case-insensitively, is not a planned one
HasUnexpected ==
  \E p \in codeObjectFiles : Lower(p) \notin {Lower(q) : q \in sourceLibPaths \cup asmLibPaths}

\* C6 (unexpected artifact): when the code objects TensileCreateLibrary got
\* back hold a path that is not a planned source or assembly library path
\* (compared case-insensitively), the reconciliation fails the build,
\* whatever GenerateSourcesAndExit is, and no library metadata file is
\* written.
C6_UnexpectedArtifact ==
  (entry = "TensileCreateLibrary" /\ pc # "reconcile" /\ HasUnexpected) =>
    /\ pc = "failed"
    /\ exitCause = "AssertionError: Unexpected code object files"
    /\ printed[Len(printed)].msg = "Unexpected code object files"
    /\ libraryDir \cap MetadataFiles = {}

\* the reconciliation failed a build that produced an unplanned code object
C6_Witness ==
  /\ pc = "failed"
  /\ exitCause = "AssertionError: Unexpected code object files"
  /\ HasUnexpected
  /\ codeObjectFiles \cap (sourceLibPaths \cup asmLibPaths) # {}

\* C7 (missing artifact): a planned library path that was not produced fails
\* the build, except in generate-sources-and-exit mode, where no step fails
\* the build for an absent code object, the final existence check included.
C7_MissingArtifact ==
  entry = "TensileCreateLibrary" =>
    /\ (GenerateSourcesAndExit = FALSE /\ pc \in {"metadata", "exists", "done"}
          /\ GenerateManifestAndExit = FALSE) =>
         Missing(codeObjectFiles, sourceLibPaths \cup asmLibPaths, osName) = {}
    /\ (GenerateSourcesAndExit = TRUE /\ pc = "failed") =>
         /\ exitCause # "AssertionError: Missing expected code object files"
         /\ exitCause = "File is missing." =>
              printed[Len(printed)].about \cap (sourceLibPaths \cup asmLibPaths) = {}

\* the positions of a build from the dispatch of the generation tasks on
Generating == pc \in {"generate", "scan", "cascade", "write", "helpers", "compile",
                      "reconcile", "metadata", "exists"}

\* C11 (manifest before generation): when TensileCreateLibrary dispatches the
\* generation tasks, and ever after, the manifest is written and holds
\* exactly the planned metadata, source library and assembly library paths;
\* in generate-manifest-and-exit mode the run never dispatches a generation
\* task, has no result, and writes no kernel file, no code object and no
\* library metadata file.
C11_ManifestBeforeGeneration ==
  entry = "TensileCreateLibrary" =>
    /\ (Generating \/ results # << >>) =>
         /\ "TensileManifest.txt" \in libraryDir
         /\ manifest = libMetadataPaths \cup sourceLibPaths \cup asmLibPaths
    /\ GenerateManifestAndExit =>
         /\ ~Generating
         /\ results = << >>
         /\ filesWritten = EmptyDict /\ kernelFiles = << >>
         /\ codeObjectFiles = {}
         /\ libraryDir \subseteq {"TensileManifest.txt"}

\* a run in generate-manifest-and-exit mode ended with a manifest of
\* metadata, source library and assembly library paths
C11_Witness ==
  /\ entry = "TensileCreateLibrary"
  /\ GenerateManifestAndExit
  /\ pc = "done"
  /\ "TensileManifest.txt" \in libraryDir
  /\ libMetadataPaths # {} /\ sourceLibPaths # {} /\ asmLibPaths # {}
  /\ manifest = libMetadataPaths \cup sourceLibPaths \cup asmLibPaths


(***************************************************************************)
(* generateKernelObjectsFromSolutions on its own: the solutions hold       *)
(* helper kernel objects, some of them distinct objects of one name.       *)
(***************************************************************************)
MaxExtractSolutions == 2   \* most solutions handed to the extraction
MaxHelpers == 2            \* most helper kernel objects of one solution

HelperObjects == {Helper("A", 1), Helper("A", 2), Helper("B", 1), Helper("C", 1)}

\* the lists of at most h helper objects
HelperLists(h) == UNION {[1..n -> HelperObjects] : n \in 0..h}

\* a solution with the helper objects hs
ExtractSolution(id, hs) ==
  Solution(id, "gfx900", "TensileLibrary_A_gfx900", <<Kernel(1, "Ka", "Assembly", "gfx900")>>, hs)

\* the lists of at most s solutions with at most h helper objects each
ExtractInputs(s, h) ==
  UNION {{[i \in 1..n |-> ExtractSolution(i, hs[i])] : hs \in [1..n -> HelperLists(h)]} :
         n \in 0..s}

\* the flags of a build with one merged file on Linux
DefaultFlags ==
  /\ MergeFiles = TRUE /\ NumMergedFiles = 1
  /\ GenerateSourcesAndExit = FALSE /\ GenerateManifestAndExit = FALSE
  /\ osName = "posix"

ExtractInit ==
  /\ entry = "generateKernelObjectsFromSolutions"
  /\ mode = "full"
  /\ DefaultFlags
  /\ errorTolerant = FALSE
  /\ sourceArchs = BuildArchs
  /\ solutions \in ExtractInputs(MaxExtractSolutions, MaxHelpers)
  /\ masterLibraries = EmptyLibraries
  /\ fullMasterLibrary = NoObject
  /\ pc = "extract"
  /\ kernels = << >>
  /\ MergeIdle
  /\ BuildStart

ExtractNext == GenerateKernelObjects

SpecExtract == ExtractInit /\ [][ExtractNext]_vars

\* the helper kernel objects of all solutions, in order
AllHelpers == Flatten([i \in 1..Len(solutions) |-> solutions[i].helpers])

MaxTargets == 3   \* most targets of splitArchs()

Targets == {"gfx900", "gfx906", "gfx90a-xnack+", "gfx90a-xnack-"}

\* the targets in the order splitArchs() lists them
TargetOrder(t) ==
  CASE t = "gfx900" -> 1 [] t = "gfx906" -> 2 [] t = "gfx90a-xnack+" -> 3 [] OTHER -> 4

RECURSIVE TargetList(_)
TargetList(S) ==
  IF S = {} THEN << >>
  ELSE LET t == CHOOSE x \in S : \A y \in S : TargetOrder(x) <= TargetOrder(y)
       IN  <<t>> \o TargetList(S \ {t})

TargetLists == {TargetList(S) : S \in {T \in SUBSET Targets : T # {} /\ Cardinality(T) <= MaxTargets}}

CodeObjectNames ==
  {"Kernel_gfx900", "Kernel_gfx906", "Kernel_gfx90a", "Kernel_gfx90a-xnack+", "Kernel_gfx90",
   "Kernel_gfx9", "Kernel_gfx1100", "Kernel_gfx900_fallback", "Kernel"}

XnackInit ==
  /\ entry = "buildObjectFileNames"
  /\ mode = "lazy"
  /\ DefaultFlags
  /\ errorTolerant = FALSE
  /\ sourceArchs \in TargetLists
  /\ solutions = << >>
  /\ masterLibraries = EmptyLibraries
  /\ fullMasterLibrary = NoObject
  /\ pc = "xnack"
  /\ MergeIdle
  /\ kernels \in {<<[Kernel(1, "Kc", "Source", "gfx900") EXCEPT !.codeObjectFile = n]>> :
                   n \in CodeObjectNames}
  /\ BuildStart

\* lines 530-537
ExpandXnack ==
  /\ pc = "xnack"
  /\ IF PlannerRaises(kernels, mode)
     THEN /\ pc' = "failed"
          /\ exitCause' = "AttributeError"
          /\ UNCHANGED sourceLibPaths
     ELSE /\ sourceLibPaths' = sourceLibPaths \cup LazySourceLibFiles(kernels)
          /\ pc' = "expanded"
          /\ UNCHANGED exitCause
  /\ UNCHANGED <<mode, masterLibraries, fullMasterLibrary, solutions, fileArch,
                GenSolTable, pending, nextSolIndex, matchTable, solIndex, codeObjectFile,
                entry, MergeFiles, NumMergedFiles, GenerateSourcesAndExit,
                GenerateManifestAndExit, errorTolerant, osName, sourceArchs, kernels,
                kernelHelperObjs, results, removeKernels, removeKernelNames,
                removeResults, kernelsWithBuildErrs, kernelFiles, filesWritten,
                kernelsToBuild, codeObjectFiles, asmLibPaths, libMetadataPaths, manifest,
                libraryDir, printed>>

XnackNext == ExpandXnack

SpecXnack == XnackInit /\ [][XnackNext]_vars

\* the lazy source kernel was expanded
Expanded ==
  /\ entry = "buildObjectFileNames"
  /\ pc = "expanded"
  /\ LazyCond(kernels[1], "Source")

\* C9 (lazy xnack expansion), as the specification states it: a code object
\* name whose architecture suffix is a supported target that shares its GPU
\* family with other supported targets expands to one file name per
\* supported target of that family; Kernel_gfx900 with the targets gfx900
\* and gfx906 gives Kernel_gfx900.hsaco and Kernel_gfx906.hsaco.
C9_XnackExpansion ==
  Expanded =>
    LET name == kernels[1].codeObjectFile
        family == {t \in Range(sourceArchs) : Family(t) = Family(GfxMatch(name))}
    IN  /\ (GfxMatch(name) \in Range(sourceArchs) /\ family # {GfxMatch(name)}) =>
             sourceLibPaths = {Stem(name) \o t \o ".hsaco" : t \in family}
        /\ (name = "Kernel_gfx900" /\ Range(sourceArchs) = {"gfx900", "gfx906"}) =>
             sourceLibPaths = {"Kernel_gfx900.hsaco", "Kernel_gfx906.hsaco"}

\* C9 (lazy xnack expansion), as the code has it: a code object name whose
\* architecture suffix is a supported target expands to that one file name,
\* whatever other targets share its family; a suffix that is no supported
\* target expands to one file name per supported target beginning with the
\* suffix.  Kernel_gfx900 with the targets gfx900 and gfx906 gives exactly
\* Kernel_gfx900.hsaco.
C9_XnackExpansionExact ==
  Expanded =>
    LET name == kernels[1].codeObjectFile
        suffix == GfxMatch(name)
        begun == {t \in Range(sourceArchs) : Len(t) >= Len(suffix) /\ SubSeq(t, 1, Len(suffix)) = suffix}
    IN  /\ suffix \in Range(sourceArchs) => sourceLibPaths = {name \o ".hsaco"}
        /\ suffix \notin Range(sourceArchs) =>
             sourceLibPaths = {Stem(name) \o t \o ".hsaco" : t \in begun}
        /\ (name = "Kernel_gfx900" /\ Range(sourceArchs) = {"gfx900", "gfx906"}) =>
             sourceLibPaths = {"Kernel_gfx900.hsaco"}

\* Kernel_gfx900 expanded for the targets gfx900 and gfx906
C9_Witness ==
  /\ Expanded
  /\ kernels[1].codeObjectFile = "Kernel_gfx900"
  /\ Range(sourceArchs) = {"gfx900", "gfx906"}
  /\ sourceLibPaths = {"Kernel_gfx900.hsaco"}

(***************************************************************************)
(* The cascade of writeSolutionsAndKernels (lines 280-309) run a second    *)
(* time on the lists the first run left, with the same removal queues.     *)
(***************************************************************************)
CascadeInit ==
  /\ entry = "writeSolutionsAndKernels"
  /\ mode \in Modes
  /\ DefaultFlags
  /\ errorTolerant = TRUE
  /\ sourceArchs = BuildArchs
  /\ solutions \in SolutionLists
  /\ masterLibraries = EmptyLibraries
  /\ fullMasterLibrary = NoObject
  /\ pc = "extract"
  /\ kernels = << >>
  /\ MergeIdle
  /\ BuildStart

\* lines 297-309 once more
RemoveFailedAgain == RemoveFailedAt("write", "reapplied")

CascadeNext ==
  \/ GenerateKernelObjects
  \/ GenerateKernels
  \/ ScanBuildResults
  \/ RemoveFailed
  \/ RemoveFailedAgain

SpecCascade == CascadeInit /\ [][CascadeNext]_vars

\* C10 (idempotent cascade): the second run of the cascade removal, with
\* the removal queues of the first, completes and leaves the kernels, the
\* solutions and the results as the first run left them.
C10_IdempotentCascade ==
  [][(pc = "write" /\ pc' # "write") =>
       /\ pc' = "reapplied"
       /\ kernels' = kernels
       /\ solutions' = solutions
       /\ results' = results]_vars

(***************************************************************************)
(* validateLibrary (lines 711-726) on its own: a kernel list in any order, *)
(* every kernel assigned to a lazy sub-library, and one MasterLibrary with *)
(* lazy sub-libraries.                                                     *)
(***************************************************************************)
MaxValidateKernels == 3    \* most kernels of the list
MaxLazySolutions == 2      \* most solutions of one lazy sub-library

ValidateLazyNames == <<"TensileLibrary_A_gfx900", "TensileLibrary_B_gfx900">>

ValidateKernel(i, cof) ==
  [Kernel(i, "K" \o ToString(i), "Assembly", "gfx900") EXCEPT !.codeObjectFile = cof]

\* kernel lists without two kernels of one key, in every order
ValidateKernelLists(n) ==
  {ks \in UNION {[1..l -> {ValidateKernel(i, c) : i \in 1..n, c \in Range(ValidateLazyNames)}] :
                   l \in 0..n} :
     \A i, j \in DOMAIN ks : i # j => ks[i].key # ks[j].key}

\* one MasterLibrary holding, per lazy sub-library name, up to s solutions
\* (a sub-library without solutions is not there)
ValidateLibraries(n, s) ==
  {[order |-> <<"gfx900">>,
    lib |-> [a \in {"gfx900"} |->
               LET names == SelectSeq(ValidateLazyNames, LAMBDA c : Len(pick[c]) > 0)
               IN  Library(EmptyDict, names,
                           [c \in Range(names) |->
                              DictOfSeq([j \in 1..Len(pick[c]) |-> ValidateKernel(pick[c][j], c)])])]] :
     pick \in [Range(ValidateLazyNames) -> UNION {[1..l -> 1..n] : l \in 0..s}]}

\* line 714: itertools.groupby starts a new group whenever the key changes,
\* and the dict comprehension keeps the last group of a key
LastGroup(ks, cof) ==
  LET last == Max({i \in 1..Len(ks) : ks[i].codeObjectFile = cof})
      first == Min({i \in 1..last : \A j \in i..last : ks[j].codeObjectFile = cof})
  IN  SubSeq(ks, first, last)

kernelsByCodeObjectFiles(ks) ==
  [cof \in {ks[i].codeObjectFile : i \in 1..Len(ks)} |-> LastGroup(ks, cof)]

\* line 720
uniqueKernelsInLib(llib) == {getKernelName(llib[i]) : i \in DOMAIN llib}

\* line 724
SizeMsg(name, unique, assigned) ==
  [msg |-> "library and co has inconsistent kernel size", about |-> {name},
   sizes |-> <<unique, assigned>>]

\* the lazy sub-libraries of all MasterLibraries, in the order of lines 718-719
LazyLibs(ml) ==
  Flatten([a \in 1..Len(ml.order) |->
             LET lib == ml.lib[ml.order[a]]
             IN  [j \in 1..Len(lib.lazyNames) |->
                    [name |-> lib.lazyNames[j], llib |-> lib.lazyLibraries[lib.lazyNames[j]]]]])

\* lines 716-724; acc = [raised, ok, printed]
RECURSIVE CheckLazyLibs(_, _, _)
CheckLazyLibs(acc, libs, groups) ==
  IF libs = << >> \/ acc.raised THEN acc
  ELSE LET name == Head(libs).name
           unique == Cardinality(uniqueKernelsInLib(Head(libs).llib))
       IN  IF name \notin DOMAIN groups
           THEN [acc EXCEPT !.raised = TRUE]
           ELSE CheckLazyLibs(
                  IF unique # Len(groups[name])
                  THEN [acc EXCEPT !.ok = FALSE,
                                   !.printed = Append(@, SizeMsg(name, unique, Len(groups[name])))]
                  ELSE acc,
                  Tail(libs), groups)

\* lines 714-726
validateLibrary(ml, ks) ==
  CheckLazyLibs([raised |-> FALSE, ok |-> TRUE, printed |-> << >>], LazyLibs(ml),
                kernelsByCodeObjectFiles(ks))

ValidateInit ==
  /\ entry = "validateLibrary"
  /\ mode = "lazy"
  /\ DefaultFlags
  /\ errorTolerant = FALSE
  /\ sourceArchs = BuildArchs
  /\ solutions = << >>
  /\ masterLibraries \in ValidateLibraries(MaxValidateKernels, MaxLazySolutions)
  /\ fullMasterLibrary = NoObject
  /\ pc = "validate"
  /\ kernels \in ValidateKernelLists(MaxValidateKernels)
  /\ MergeIdle
  /\ BuildStart

\* lines 711-726
ValidateLibrary ==
  LET v == validateLibrary(masterLibraries, kernels)
  IN  /\ pc = "validate"
      /\ printed' = printed \o v.printed
      /\ exitCause' = IF v.raised THEN "KeyError"
                      ELSE IF ~v.ok THEN "AssertionError" ELSE exitCause
      /\ pc' = IF v.raised \/ ~v.ok THEN "failed" ELSE "validated"
      /\ UNCHANGED <<mode, masterLibraries, fullMasterLibrary, solutions, fileArch,
                    GenSolTable, pending, nextSolIndex, matchTable, solIndex, codeObjectFile,
                    entry, MergeFiles, NumMergedFiles, GenerateSourcesAndExit,
                    GenerateManifestAndExit, errorTolerant, osName, sourceArchs, kernels,
                    kernelHelperObjs, results, removeKernels, removeKernelNames,
                    removeResults, kernelsWithBuildErrs, kernelFiles, filesWritten,
                    kernelsToBuild, codeObjectFiles, sourceLibPaths, asmLibPaths,
                    libMetadataPaths, manifest, libraryDir>>

ValidateNext == ValidateLibrary

SpecValidate == ValidateInit /\ [][ValidateNext]_vars

\* the kernels assigned to a code object file, wherever they are in the list
AssignedTo(cof) == Cardinality({i \in 1..Len(kernels) : kernels[i].codeObjectFile = cof})

\* the lazy sub-libraries whose count of distinct kernel names differs from
\* the count of kernels assigned to them
Inconsistent ==
  {l \in Range(LazyLibs(masterLibraries)) :
     Cardinality(uniqueKernelsInLib(l.llib)) # AssignedTo(l.name)}

\* C12 (structural validation): whatever the order of the kernel list,
\* validateLibrary fails exactly when some lazy sub-library has a count of
\* distinct kernel names different from the count of kernels assigned to its
\* code object file, and on failure it has printed, for every such
\* sub-library, its name and both counts.  (Stated for the runs in which
\* every lazy sub-library has a kernel, so that line 722 finds its key.)
C12_StructuralValidation ==
  (pc \in {"validated", "failed"} /\ exitCause # "KeyError") =>
    /\ pc = "failed" <=> Inconsistent # {}
    /\ \A l \in Inconsistent :
         \E i \in 1..Len(printed) :
           printed[i] = SizeMsg(l.name, Cardinality(uniqueKernelsInLib(l.llib)),
                                AssignedTo(l.name))

(***************************************************************************)
(* Failure reports of the build                                            *)
(***************************************************************************)
\* the paths and names the printed messages are about
Reported == UNION {printed[i].about : i \in 1..Len(printed)}

\* the offending paths of a failed reconciliation or existence check
Offending ==
  Unexpected(codeObjectFiles, sourceLibPaths \cup asmLibPaths, osName)
  \cup (IF GenerateSourcesAndExit THEN {}
        ELSE Missing(codeObjectFiles, sourceLibPaths \cup asmLibPaths, osName))
  \cup (IF exitCause = "File is missing."
        THEN MissingOnDisk(libMetadataPaths \cup sourceLibPaths \cup asmLibPaths, libraryDir)
        ELSE {})

\* C14 (complete error listing): when the reconciliation or the existence
\* check fails TensileCreateLibrary, every offending path of the run has
\* been reported: every unexpected code object, every missing planned code
\* object and, at the existence check, every planned file absent from disk.
C14_CompleteErrorListing ==
  (entry = "TensileCreateLibrary" /\ pc = "failed"
     /\ exitCause \in {"AssertionError: Unexpected code object files",
                       "AssertionError: Missing expected code object files",
                       "File is missing."}) =>
    Offending \subseteq Reported

(***************************************************************************)
(* The planned metadata paths                                              *)
(***************************************************************************)
\* the planner has run and returned
Planned == entry = "TensileCreateLibrary" /\ pc \notin {"extract", "plan"}
           /\ ~(pc = "failed" /\ exitCause = "AttributeError")

\* the path of the MasterLibrary of an architecture
MasterPath(arch) ==
  (IF mode = "lazy" THEN "TensileLibrary_lazy_" ELSE "TensileLibrary_") \o arch \o libraryExt

\* the names of the lazy sub-libraries the MasterLibraries own
OwnedLazyNames ==
  UNION {DOMAIN masterLibraries.lib[arch].lazyLibraries : arch \in LibKeys(masterLibraries)}

\* C15 (metadata path plan): the planned metadata paths are the path of
\* every retained MasterLibrary (TensileLibrary_<arch>, TensileLibrary_lazy_<arch>
\* in lazy mode), the path of every lazy sub-library a MasterLibrary owns
\* (its name), each with the metadata extension, and nothing else but the
\* global TensileLibrary path, which is planned exactly when neither
\* separate-architectures nor lazy-loading mode is active.
C15_MetadataPathPlan ==
  Planned =>
    /\ \A arch \in LibKeys(masterLibraries) : MasterPath(arch) \in libMetadataPaths
    /\ \A name \in OwnedLazyNames : name \o libraryExt \in libMetadataPaths
    /\ ("TensileLibrary" \o libraryExt \in libMetadataPaths) <=> mode \notin {"separate", "lazy"}
    /\ \A p \in libMetadataPaths :
         \/ p = "TensileLibrary" \o libraryExt
         \/ \E arch \in LibKeys(masterLibraries) : p = MasterPath(arch)
         \/ \E name \in OwnedLazyNames : p = name \o libraryExt
    /\ Cardinality(libMetadataPaths) =
         (IF mode = "full" THEN 1 ELSE 0) + Cardinality(LibKeys(masterLibraries))
         + Cardinality(OwnedLazyNames)

\* a lazy build planned with a MasterLibrary that owns two lazy
\* sub-libraries, one of them merged from the fallback
C15_Witness ==
  /\ Planned
  /\ mode = "lazy"
  /\ \E arch \in LibKeys(masterLibraries) :
       Cardinality(DOMAIN masterLibraries.lib[arch].lazyLibraries) = 2
  /\ Cardinality(libMetadataPaths) = 3

(***************************************************************************)
(* The kernels handed to the toolchain                                     *)
(***************************************************************************)
\* the results generated from the kernel of a key
ResultsOf(key) == {r \in Range(results) : r.forKey = key}

\* C16 (no failed kernel behind a retained solution): when
\* writeSolutionsAndKernels hands the kernels to the toolchain, every kernel
\* of every retained solution has a result, and its result carries no error
\* code, whatever the generation outcomes were.
C16_NoFailedKernelRetained ==
  pc = "compile" =>
    \A s \in Range(solutions) : \A k \in Range(getKernels(s, mode)) :
      /\ ResultsOf(getKeyNoInternalArgs(k)) # {}
      /\ \A r \in ResultsOf(getKeyNoInternalArgs(k)) : r.err = 0

(***************************************************************************)
(* The generation with results arriving in any order: Common.ParallelMap2  *)
(* hands the results back as the workers complete.                         *)
(***************************************************************************)
ArrivalInit ==
  /\ entry = "writeSolutionsAndKernels"
  /\ mode = "full"
  /\ DefaultFlags
  /\ errorTolerant \in BOOLEAN
  /\ sourceArchs = BuildArchs
  /\ solutions \in SolutionLists
  /\ masterLibraries = EmptyLibraries
  /\ fullMasterLibrary = NoObject
  /\ pc = "extract"
  /\ kernels = << >>
  /\ MergeIdle
  /\ BuildStart

\* lines 277-278: one result per kernel, in the order of completion
GenerateKernelsUnordered ==
  /\ pc = "generate"
  /\ \E outcome \in [1..Len(kernels) -> Outcomes] :
       \E arrival \in Permutations(1..Len(kernels)) :
         /\ \A i \in 1..Len(kernels) : outcome[i] \in OutcomesOf(kernels[i])
         /\ results' = [i \in 1..Len(kernels) |->
                          processKernelSource(kernels[arrival[i]], outcome[arrival[i]])]
  /\ pc' = "scan"
  /\ UNCHANGED <<mode, masterLibraries, fullMasterLibrary, solutions, fileArch,
                GenSolTable, pending, nextSolIndex, matchTable, solIndex, codeObjectFile,
                entry, MergeFiles, NumMergedFiles, GenerateSourcesAndExit,
                GenerateManifestAndExit, errorTolerant, osName, sourceArchs, kernels,
                kernelHelperObjs, removeKernels, removeKernelNames, removeResults,
                kernelsWithBuildErrs, kernelFiles, filesWritten, kernelsToBuild,
                codeObjectFiles, sourceLibPaths, asmLibPaths, libMetadataPaths, manifest,
                libraryDir, printed, exitCause>>

ArrivalNext ==
  \/ GenerateKernelObjects
  \/ GenerateKernelsUnordered
  \/ ScanBuildResults

SpecArrival == ArrivalInit /\ [][ArrivalNext]_vars

MaxExactSolutions == 2     \* most solutions of one cascade

\* the solutions of the builds and one whose kernel is named as kernel 1
ExactSolutions ==
  SolutionUniverse \cup
  {Solution(5, "gfx900", "TensileLibrary_A_gfx900",
            <<Kernel(5, "Ka", "Assembly", "gfx900")>>, << >>)}

ExactInit ==
  /\ entry = "writeSolutionsAndKernels"
  /\ mode \in Modes
  /\ DefaultFlags
  /\ errorTolerant = TRUE
  /\ sourceArchs = BuildArchs
  /\ solutions \in {s \in UNION {[1..n -> ExactSolutions] : n \in 0..MaxExactSolutions} :
                      \A i, j \in DOMAIN s : i # j => s[i] # s[j]}
  /\ masterLibraries = EmptyLibraries
  /\ fullMasterLibrary = NoObject
  /\ pc = "extract"
  /\ kernels = << >>
  /\ MergeIdle
  /\ BuildStart

ExactNext ==
  \/ GenerateKernelObjects
  \/ GenerateKernels
  \/ ScanBuildResults
  \/ RemoveFailed

SpecExact == ExactInit /\ [][ExactNext]_vars

\* the keys of the kernels whose own result carries the fatal code
FatalKeys == {getKeyNoInternalArgs(K) : K \in FatalKernels}

\* the elements of seq at the positions of keep, in their order
RECURSIVE Kept(_, _)
Kept(seq, keep) ==
  IF seq = << >> THEN << >>
  ELSE Kept(SubSeq(seq, 1, Len(seq) - 1), keep) \o
       (IF Len(seq) \in keep THEN <<seq[Len(seq)]>> ELSE << >>)

\* C18 (exact cascade): in error-tolerant mode the cascade completes and
\* leaves exactly the kernels whose own result is not fatal, exactly the
\* solutions none of whose kernel keys is the key of a fatal kernel, and
\* exactly the results generated from the surviving kernels, each list in
\* its order, whatever the order of the solutions and of the scan; nothing
\* that did not fail is removed, even if it is named as a failed kernel.
C18_ExactCascade ==
  [][(pc = "cascade" /\ pc' # "cascade") =>
       /\ pc' = "write"
       /\ kernels' = Kept(kernels, {i \in 1..Len(kernels) : results[i].err # FatalCode})
       /\ solutions' = Kept(solutions,
                            {i \in 1..Len(solutions) :
                               \A k \in Range(getKernels(solutions[i], mode)) :
                                 getKeyNoInternalArgs(k) \notin FatalKeys})
       /\ results' = Kept(results, {i \in 1..Len(results) : results[i].err # FatalCode})
       /\ Len(results') = Len(kernels')
       /\ \A i \in 1..Len(results') :
            results'[i].forKey = getKeyNoInternalArgs(kernels'[i])]_vars

\* a cascade removed a failed kernel and kept a kernel of the same name
\* whose generation did not fail
C18_Witness ==
  /\ errorTolerant = TRUE
  /\ pc = "write"
  /\ removeKernels # << >>
  /\ \E i \in 1..Len(kernels) : \E j \in 1..Len(removeKernels) :
       getKernelName(kernels[i]) = getKernelName(removeKernels[j])
  /\ solutions # << >> /\ results # << >>

(***************************************************************************)
(* The kernel file groups                                                  *)
(***************************************************************************)
\* the file groups the text of the kernel of a name was written to
GroupsOf(kernelName) ==
  {f \in DOMAIN filesWritten : kernelName \in Range(filesWritten[f])}

\* C19 (no generated kernel is lost by grouping): whatever MergeFiles,
\* NumMergedFiles, the library mode and the codeObjectFile tags are,
\* buildKernelSourceAndHeaderFiles completes, every result with source text
\* is in exactly one file group, once, and every result without source text
\* is in no group and is recorded in kernelsWithBuildErrs only if its error
\* code is not zero.
C19_NoKernelLost ==
  /\ (pc = "failed" /\ results # << >>) => exitCause # "TypeError"
  /\ pc = "helpers" =>
       \A r \in Range(results) :
         IF r.src # ""
         THEN /\ Cardinality(GroupsOf(r.kernelName)) = 1
              /\ \A f \in GroupsOf(r.kernelName) :
                   Cardinality({i \in 1..Len(filesWritten[f]) :
                                  filesWritten[f][i] = r.kernelName}) = 1
         ELSE /\ GroupsOf(r.kernelName) = {}
              /\ r.kernelName \in DOMAIN kernelsWithBuildErrs => r.err # 0

(***************************************************************************)
(* generateKernelObjectsFromSolutions (lines 610-631) on solutions whose   *)
(* kernels share keys: kernels of one key may differ in their state.       *)
(***************************************************************************)
MaxKeySolutions == 2    \* most solutions handed to the extraction
MaxKeyKernels == 2      \* most kernels of one solution

\* two kernels of key 1 and one of key 2
KeyKernels ==
  {Kernel(1, "Ka", "Assembly", "gfx900"), Kernel(1, "Kb", "Assembly", "gfx900"),
   Kernel(2, "Kc", "Assembly", "gfx900")}

\* the kernel lists of one solution: one to k kernels, no kernel twice
KeyInputs(k) ==
  {ks \in UNION {[1..l -> KeyKernels] : l \in 1..k} :
     \A i, j \in DOMAIN ks : i # j => ks[i] # ks[j]}

KeyInit ==
  /\ entry = "generateKernelObjectsFromSolutions"
  /\ mode = "full"
  /\ DefaultFlags
  /\ errorTolerant = FALSE
  /\ sourceArchs = BuildArchs
  /\ \E n \in 0..MaxKeySolutions :
       \E ks \in [1..n -> KeyInputs(MaxKeyKernels)] :
         solutions = [i \in 1..n |->
                        Solution(i, "gfx900", "TensileLibrary_A_gfx900", ks[i], << >>)]
  /\ masterLibraries = EmptyLibraries
  /\ fullMasterLibrary = NoObject
  /\ pc = "extract"
  /\ kernels = << >>
  /\ MergeIdle
  /\ BuildStart

KeyNext == GenerateKernelObjects

SpecKeys == KeyInit /\ [][KeyNext]_vars

\* the kernels of all solutions, in solution order
AllKernels == Flatten([i \in 1..Len(solutions) |-> getKernels(solutions[i], mode)])

\* the first position in AllKernels of a kernel of the key
FirstAt(key) == Min({j \in 1..Len(AllKernels) : getKeyNoInternalArgs(AllKernels[j]) = key})

\* C20 (kernel key uniqueness): the kernel list generateKernelObjectsFromSolutions
\* returns has no two kernels of one key; every kernel key of every solution
\* is the key of exactly one kernel of the list, which is the first kernel
\* of that key in solution order; the list is in the order of these first
\* occurrences and holds nothing else.
C20_KernelKeyUniqueness ==
  (entry = "generateKernelObjectsFromSolutions" /\ pc = "returned") =>
    /\ \A i, j \in 1..Len(kernels) :
         i # j => getKeyNoInternalArgs(kernels[i]) # getKeyNoInternalArgs(kernels[j])
    /\ \A j \in 1..Len(AllKernels) :
         \E i \in 1..Len(kernels) :
           /\ getKeyNoInternalArgs(kernels[i]) = getKeyNoInternalArgs(AllKernels[j])
           /\ kernels[i] = AllKernels[FirstAt(getKeyNoInternalArgs(AllKernels[j]))]
    /\ \A i \in 1..Len(kernels) : kernels[i] \in Range(AllKernels)
    /\ \A i, j \in 1..Len(kernels) :
         i < j => FirstAt(getKeyNoInternalArgs(kernels[i])) < FirstAt(getKeyNoInternalArgs(kernels[j]))

\* two solutions hold different kernels of one key, and kernels of two keys
\* were returned
C20_Witness ==
  /\ entry = "generateKernelObjectsFromSolutions"
  /\ pc = "returned"
  /\ Len(solutions) = 2 /\ Len(kernels) = 2
  /\ \E a \in Range(solutions[1].kernels) : \E b \in Range(solutions[2].kernels) :
       getKeyNoInternalArgs(a) = getKeyNoInternalArgs(b) /\ a # b

====
